---- MODULE Spec2Model ----
(***************************************************************************)
(* Model of the diff / patch core of native/jsonld_nif/src/lib.rs:         *)
(* the structural engine (jsondiffpatch-style delta with move detection    *)
(* and the thread-local content-hash cache), the operational engine        *)
(* (timestamped operation log, replay, merge) and the semantic engine      *)
(* (triple extraction, blank-node renumbering, triple-set difference and   *)
(* root-level patch).                                                      *)
(*                                                                         *)
(* A serde_json::Value is a record [t, v]: t is the variant, v the payload *)
(* (a TLA+ string for String, a sequence for Array, a function from key    *)
(* strings for Object).  Strings are ASCII, so byte length = char count.   *)
(* Numbers are the non-negative integers (serde_json's PosInt).            *)
(***************************************************************************)
EXTENDS Integers, Sequences, FiniteSets, TLC

VARIABLES
    HASH_CACHE,  \* thread_local HASH_CACHE: cache key -> hash
    pc,          \* position of the calling thread: "idle" or the NIF that returned last
    ncalls,      \* number of NIF calls made so far on this thread
    old_doc,     \* arguments of the last diff_* call
    new_doc,
    opts,        \* its option list, as (key, value) string pairs
    diff,        \* its result
    document,    \* arguments of the last patch_* call
    patch,
    patched,     \* its result
    alloc,       \* the identifiers uuid::Uuid::new_v4 handed out in the last call
    diffs,       \* argument of the last merge_diffs_operational call
    merged,      \* its result
    parsed,      \* the options struct the last parse_*_options call built
    items,       \* argument list of the running batch_expand / batch_process call
    results,     \* its result vector, one slot per item
    finished,    \* the items the parallel workers have completed, in completion order
    PATTERN_CACHE,  \* the process-wide LruCache of expansions: entries, least recently used first
    CONTEXT_CACHE,  \* the process-wide LruCache of contexts: entries, least recently used first
    json_val,    \* argument of the last expansion through expand_with_cache
    expanded     \* its result

vars == <<HASH_CACHE, pc, ncalls, old_doc, new_doc, opts, diff, document, patch, patched, alloc,
         diffs, merged, parsed, items, results, finished, PATTERN_CACHE, CONTEXT_CACHE,
         json_val, expanded>>

---------------------------------------------------------------------------
(* serde_json::Value *)

Null == [t |-> "null", v |-> 0]
Bool(b) == [t |-> "bool", v |-> b]
Num(n) == [t |-> "num", v |-> n]
Str(s) == [t |-> "str", v |-> s]
Arr(a) == [t |-> "arr", v |-> a]
Obj(m) == [t |-> "obj", v |-> m]

EmptyMap == <<>>

\* Map::insert: sets the key, replacing an entry already there
MapInsert(m, k, x) == [j \in (DOMAIN m) \cup {k} |-> IF j = k THEN x ELSE m[j]]

\* Map::remove
MapRemove(m, k) == [j \in (DOMAIN m) \ {k} |-> m[j]]

\* Value::get(key): the entry of an object, None otherwise
HasKey(val, k) == val.t = "obj" /\ k \in DOMAIN val.v

---------------------------------------------------------------------------
(* Strings: byte order, prefixes, decimal formatting and parsing *)

CharOrder == "#-./0123456789:@ABCDEFGHIJKLMNOPQRSTUVWXYZ_abcdefghijklmnopqrstuvwxyz"

CharAt(s, i) == SubSeq(s, i, i)

OrdOf(c) == CHOOSE i \in 1..Len(CharOrder) : CharAt(CharOrder, i) = c

RECURSIVE StrLessFrom(_, _, _)
StrLessFrom(a, b, i) ==
    IF i > Len(b) THEN FALSE
    ELSE IF i > Len(a) THEN TRUE
    ELSE IF CharAt(a, i) = CharAt(b, i) THEN StrLessFrom(a, b, i + 1)
    ELSE OrdOf(CharAt(a, i)) < OrdOf(CharAt(b, i))

\* str::cmp: lexicographic by bytes
StrLess(a, b) == StrLessFrom(a, b, 1)

MinStr(S) == CHOOSE x \in S : \A y \in S : x = y \/ StrLess(x, y)

RECURSIVE SortedStrs(_)
SortedStrs(S) ==
    IF S = {} THEN <<>>
    ELSE LET x == MinStr(S) IN <<x>> \o SortedStrs(S \ {x})

\* str::starts_with
StartsWith(s, p) == Len(s) >= Len(p) /\ SubSeq(s, 1, Len(p)) = p

IsDigit(c) == \E d \in 0..9 : ToString(d) = c

DigitVal(c) == CHOOSE d \in 0..9 : ToString(d) = c

RECURSIVE ParseFrom(_, _, _)
ParseFrom(s, i, acc) ==
    IF i > Len(s) THEN acc
    ELSE IF ~IsDigit(CharAt(s, i)) THEN -1
    ELSE ParseFrom(s, i + 1, acc * 10 + DigitVal(CharAt(s, i)))

\* str::parse::<usize>: the number, or -1 for Err
ParseUsize(s) == IF Len(s) = 0 THEN -1 ELSE ParseFrom(s, 1, 0)

\* format!("_{}", i)
UKey(i) == "_" \o ToString(i)

Max(a, b) == IF a >= b THEN a ELSE b

---------------------------------------------------------------------------
(* Deep equality *)

CHUNK_SIZE == 32

\* strings_equal_simd: length, then 32-byte chunks, then the remainder
StringsEqualSimd(a, b) ==
    IF Len(a) # Len(b) THEN FALSE
    ELSE IF Len(a) < CHUNK_SIZE THEN a = b
    ELSE LET chunks == Len(a) \div CHUNK_SIZE
             remainder == Len(a) % CHUNK_SIZE
         IN /\ \A i \in 0..(chunks - 1) :
                   SubSeq(a, i * CHUNK_SIZE + 1, i * CHUNK_SIZE + CHUNK_SIZE)
                       = SubSeq(b, i * CHUNK_SIZE + 1, i * CHUNK_SIZE + CHUNK_SIZE)
            /\ (remainder > 0 =>
                   SubSeq(a, chunks * CHUNK_SIZE + 1, Len(a))
                       = SubSeq(b, chunks * CHUNK_SIZE + 1, Len(b)))

RECURSIVE ValuesEqualSimd(_, _)
ValuesEqualSimd(a, b) ==
    IF a.t # b.t THEN FALSE
    ELSE IF a.t = "str" THEN StringsEqualSimd(a.v, b.v)
    ELSE IF a.t = "num" THEN a.v = b.v
    ELSE IF a.t = "bool" THEN a.v = b.v
    ELSE IF a.t = "null" THEN TRUE
    ELSE IF a.t = "arr" THEN
        /\ Len(a.v) = Len(b.v)
        /\ \A i \in 1..Len(a.v) : ValuesEqualSimd(a.v[i], b.v[i])
    ELSE
        /\ Cardinality(DOMAIN a.v) = Cardinality(DOMAIN b.v)
        /\ \A k \in DOMAIN a.v : k \in DOMAIN b.v /\ ValuesEqualSimd(a.v[k], b.v[k])

---------------------------------------------------------------------------
(* Options of the structural diff *)

DEFAULT_TEXT_DIFF_THRESHOLD == 60

\* DiffOptions::default.  hash_cache is no field of DiffOptions: it is the
\* switch of the reference run that bypasses the HASH_CACHE lookup and hashes
\* every array element with compute_value_hash_fast.
DefaultDiffOptions ==
    [include_moves |-> TRUE,
     array_diff_algorithm |-> "lcs",
     text_diff |-> TRUE,
     text_diff_threshold |-> DEFAULT_TEXT_DIFF_THRESHOLD,
     hash_cache |-> TRUE]

ParseDiffOption(options, key, value) ==
    IF key = "include_moves" THEN [options EXCEPT !.include_moves = (value = "true")]
    ELSE IF key = "array_diff" THEN
        [options EXCEPT !.array_diff_algorithm =
            IF value \in {"lcs", "simple", "myers"} THEN value ELSE "lcs"]
    ELSE IF key = "text_diff" THEN [options EXCEPT !.text_diff = (value = "true")]
    ELSE IF key = "text_diff_threshold" THEN
        IF ParseUsize(value) >= 0
        THEN [options EXCEPT !.text_diff_threshold = ParseUsize(value)]
        ELSE options
    ELSE options

RECURSIVE ParseDiffOptionsFrom(_, _, _)
ParseDiffOptionsFrom(o, i, options) ==
    IF i > Len(o) THEN options
    ELSE ParseDiffOptionsFrom(o, i + 1, ParseDiffOption(options, o[i][1], o[i][2]))

\* parse_diff_options
ParseDiffOptions(o) == ParseDiffOptionsFrom(o, 1, DefaultDiffOptions)

---------------------------------------------------------------------------
(* Content hashing.  A hash is modelled by the sequence of writes the value *)
(* feeds the AHasher (fixed keys), written out as a string: two values get  *)
(* the same hash exactly when they feed the hasher the same writes.         *)

RECURSIVE ComputeValueHashFast(_)
RECURSIVE HashItems(_, _)
RECURSIVE HashEntries(_, _, _)

\* for item in arr { compute_value_hash_fast(item).hash(&mut hasher) }
HashItems(arr, i) ==
    IF i > Len(arr) THEN ""
    ELSE "u64:<" \o ComputeValueHashFast(arr[i]) \o ">;" \o HashItems(arr, i + 1)

\* for (k, v) in obj { k.hash(..); compute_value_hash_fast(v).hash(..) }, in the
\* map's key order
HashEntries(m, keys, i) ==
    IF i > Len(keys) THEN ""
    ELSE "str:" \o keys[i] \o ";u8:255;u64:<" \o ComputeValueHashFast(m[keys[i]]) \o ">;"
             \o HashEntries(m, keys, i + 1)

ComputeValueHashFast(value) ==
    IF value.t = "null" THEN "u8:0;"
    ELSE IF value.t = "bool" THEN (IF value.v THEN "u8:1;" ELSE "u8:0;")
    ELSE IF value.t = "num" THEN "u64:" \o ToString(value.v) \o ";"
    ELSE IF value.t = "str" THEN "str:" \o value.v \o ";u8:255;"
    ELSE IF value.t = "arr" THEN
        "usize:" \o ToString(Len(value.v)) \o ";" \o HashItems(value.v, 1)
    ELSE "usize:" \o ToString(Cardinality(DOMAIN value.v)) \o ";"
             \o HashEntries(value.v, SortedStrs(DOMAIN value.v), 1)

CACHE_KEY_LONG == 100

CACHE_KEY_PREFIX == 50

\* value_to_cache_key
ValueToCacheKey(value) ==
    IF value.t = "null" THEN "null"
    ELSE IF value.t = "bool" THEN "bool:" \o (IF value.v THEN "true" ELSE "false")
    ELSE IF value.t = "num" THEN "num:" \o ToString(value.v)
    ELSE IF value.t = "str" THEN
        IF Len(value.v) > CACHE_KEY_LONG
        THEN "str:" \o ToString(Len(value.v)) \o ":" \o SubSeq(value.v, 1, CACHE_KEY_PREFIX)
        ELSE "str:" \o value.v
    ELSE IF value.t = "arr" THEN "arr:" \o ToString(Len(value.v))
    ELSE "obj:" \o ToString(Cardinality(DOMAIN value.v)) \o ":"
             \o (IF DOMAIN value.v = {} THEN "" ELSE MinStr(DOMAIN value.v))

\* compute_value_hash_cached: the hash and the cache after the lookup-or-insert
ComputeValueHashCached(value, cache) ==
    LET key == ValueToCacheKey(value) IN
    IF key \in DOMAIN cache
    THEN [h |-> cache[key], c |-> cache]
    ELSE [h |-> ComputeValueHashFast(value),
          c |-> MapInsert(cache, key, ComputeValueHashFast(value))]

RECURSIVE BuildValueHashMapFrom(_, _, _, _)
BuildValueHashMapFrom(arr, i, hs, cache) ==
    IF i > Len(arr) THEN [hs |-> hs, c |-> cache]
    ELSE LET r == ComputeValueHashCached(arr[i], cache)
         IN BuildValueHashMapFrom(arr, i + 1, Append(hs, r.h), r.c)

\* build_value_hash_map
BuildValueHashMap(arr, cache) == BuildValueHashMapFrom(arr, 1, <<>>, cache)

\* the hashes of an array's elements as diff_arrays_with_moves_simd gets them;
\* in the reference run, straight from compute_value_hash_fast
ElementHashes(arr, options, cache) ==
    IF options.hash_cache THEN BuildValueHashMap(arr, cache)
    ELSE [hs |-> [i \in 1..Len(arr) |-> ComputeValueHashFast(arr[i])], c |-> cache]

---------------------------------------------------------------------------
(* Character diff of two strings *)

RECURSIVE CommonPrefix(_, _, _)
CommonPrefix(a, b, n) ==
    IF n < Len(a) /\ n < Len(b) /\ CharAt(a, n + 1) = CharAt(b, n + 1)
    THEN CommonPrefix(a, b, n + 1)
    ELSE n

RECURSIVE CommonSuffix(_, _, _, _)
CommonSuffix(a, b, p, n) ==
    IF n < Len(a) - p /\ n < Len(b) - p /\ CharAt(a, Len(a) - n) = CharAt(b, Len(b) - n)
    THEN CommonSuffix(a, b, p, n + 1)
    ELSE n

\* TextDiff::configure().algorithm(Algorithm::Myers).diff_chars(old, new).ops()
\* without the Equal ops: the edit between the common prefix and the common
\* suffix, as one Delete, Insert or Replace.  (Where the two middles share
\* characters the library's script may split it further; the strings of this
\* model differ in one run of characters.)  Ranges are half-open, in chars.
DiffCharsOps(old_text, new_text) ==
    LET p == CommonPrefix(old_text, new_text, 0)
        q == CommonSuffix(old_text, new_text, p, 0)
        oe == Len(old_text) - q
        ne == Len(new_text) - q
    IN IF p = oe /\ p = ne THEN <<>>
       ELSE IF p = ne THEN <<[tag |-> "Delete", old_range |-> <<p, oe>>, new_range |-> <<p, p>>]>>
       ELSE IF p = oe THEN <<[tag |-> "Insert", old_range |-> <<p, p>>, new_range |-> <<p, ne>>]>>
       ELSE <<[tag |-> "Replace", old_range |-> <<p, oe>>, new_range |-> <<p, ne>>]>>

\* text.chars().skip(range.start).take(range.len())
CharsOf(text, range) == SubSeq(text, range[1] + 1, range[2])

Range(r) == Arr(<<Num(r[1]), Num(r[2])>>)

\* one entry of diff_ops
TextOpJson(op, old_text, new_text) ==
    IF op.tag = "Delete" THEN
        Obj([k \in {"op", "range", "text"} |->
            IF k = "op" THEN Str("delete")
            ELSE IF k = "range" THEN Range(op.old_range)
            ELSE Str(CharsOf(old_text, op.old_range))])
    ELSE IF op.tag = "Insert" THEN
        Obj([k \in {"op", "range", "text"} |->
            IF k = "op" THEN Str("insert")
            ELSE IF k = "range" THEN Range(op.new_range)
            ELSE Str(CharsOf(new_text, op.new_range))])
    ELSE
        Obj([k \in {"op", "old_range", "new_range", "old_text", "new_text"} |->
            IF k = "op" THEN Str("replace")
            ELSE IF k = "old_range" THEN Range(op.old_range)
            ELSE IF k = "new_range" THEN Range(op.new_range)
            ELSE IF k = "old_text" THEN Str(CharsOf(old_text, op.old_range))
            ELSE Str(CharsOf(new_text, op.new_range))])

\* diff_text_simd
DiffTextSimd(old_text, new_text) ==
    LET ops == DiffCharsOps(old_text, new_text)
        diff_ops == [i \in 1..Len(ops) |-> TextOpJson(ops[i], old_text, new_text)]
    IN Arr(<<Obj([k \in {"text_diff"} |-> Arr(diff_ops)]), Num(0), Num(2)>>)

---------------------------------------------------------------------------
(* Structural diff.  Every operator returns [d |-> the delta, c |-> the     *)
(* HASH_CACHE after the call].                                             *)

EmptyDelta == Obj(EmptyMap)

\* a deletion marker written without its trailing 0
DeletionPair(old) == Arr(<<old, Num(0)>>)

Deletion(old) == Arr(<<old, Num(0), Num(0)>>)

Addition(new) == Arr(<<new>>)

Change(old, new) == Arr(<<old, new>>)

MoveMarker(from) == Arr(<<Str(""), Num(from), Num(3)>>)

RECURSIVE ComputeStructuralDiff(_, _, _, _)
RECURSIVE DiffObjectsFrom(_, _, _, _, _, _, _)
RECURSIVE DiffArraysSimpleFrom(_, _, _, _, _, _)
RECURSIVE DetectMoves(_, _, _, _)
RECURSIVE DiffRemainingFrom(_, _, _, _, _, _, _, _)

\* the loop of diff_objects_optimized over the union of the keys; the loop
\* visits the keys in the order of the sequence keys
DiffObjectsFrom(old_obj, new_obj, keys, i, options, result, cache) ==
    IF i > Len(keys) THEN [d |-> Obj(result), c |-> cache]
    ELSE LET key == keys[i]
             in_old == key \in DOMAIN old_obj
             in_new == key \in DOMAIN new_obj
         IN IF in_old /\ in_new THEN
                IF ~ValuesEqualSimd(old_obj[key], new_obj[key]) THEN
                    LET sub == ComputeStructuralDiff(old_obj[key], new_obj[key], options, cache)
                    IN IF sub.d = EmptyDelta
                       THEN DiffObjectsFrom(old_obj, new_obj, keys, i + 1, options, result, sub.c)
                       ELSE DiffObjectsFrom(old_obj, new_obj, keys, i + 1, options,
                                            MapInsert(result, key, sub.d), sub.c)
                ELSE DiffObjectsFrom(old_obj, new_obj, keys, i + 1, options, result, cache)
            ELSE IF in_old THEN
                DiffObjectsFrom(old_obj, new_obj, keys, i + 1, options,
                                MapInsert(result, key, Deletion(old_obj[key])), cache)
            ELSE
                DiffObjectsFrom(old_obj, new_obj, keys, i + 1, options,
                                MapInsert(result, key, Addition(new_obj[key])), cache)

\* diff_objects_optimized
DiffObjectsOptimized(old_obj, new_obj, options, cache) ==
    DiffObjectsFrom(old_obj, new_obj, SortedStrs((DOMAIN old_obj) \cup (DOMAIN new_obj)),
                    1, options, EmptyMap, cache)

\* the loop of diff_arrays_simple_simd; i is the 0-based index
DiffArraysSimpleFrom(old_arr, new_arr, i, options, result, cache) ==
    IF i >= Max(Len(old_arr), Len(new_arr)) THEN [d |-> Obj(result), c |-> cache]
    ELSE IF i < Len(old_arr) /\ i < Len(new_arr) THEN
        IF ~ValuesEqualSimd(old_arr[i + 1], new_arr[i + 1]) THEN
            LET sub == ComputeStructuralDiff(old_arr[i + 1], new_arr[i + 1], options, cache)
            IN DiffArraysSimpleFrom(old_arr, new_arr, i + 1, options,
                                    MapInsert(result, UKey(i), sub.d), sub.c)
        ELSE DiffArraysSimpleFrom(old_arr, new_arr, i + 1, options, result, cache)
    ELSE IF i < Len(old_arr) THEN
        DiffArraysSimpleFrom(old_arr, new_arr, i + 1, options,
                             MapInsert(result, UKey(i), Deletion(old_arr[i + 1])), cache)
    ELSE
        DiffArraysSimpleFrom(old_arr, new_arr, i + 1, options,
                             MapInsert(result, UKey(i), Addition(new_arr[i + 1])), cache)

\* diff_arrays_simple_simd
DiffArraysSimpleSimd(old_arr, new_arr, options, cache) ==
    DiffArraysSimpleFrom(old_arr, new_arr, 0, options, EmptyMap, cache)

\* the first loop of diff_arrays_with_moves_simd: new_idx (0-based) runs over
\* the new hashes; st = [result, processed_old, processed_new, matched], the
\* processed bit vectors as sets of 0-based indices, matched the (old_idx,
\* new_idx) pairs the loop has found so far
DetectMoves(old_hashes, new_hashes, new_idx, st) ==
    IF new_idx >= Len(new_hashes) THEN st
    ELSE IF new_idx \in st.processed_new
        THEN DetectMoves(old_hashes, new_hashes, new_idx + 1, st)
    ELSE LET found == {o \in 0..(Len(old_hashes) - 1) :
                          o \notin st.processed_old /\ old_hashes[o + 1] = new_hashes[new_idx + 1]}
         IN IF found = {} THEN DetectMoves(old_hashes, new_hashes, new_idx + 1, st)
            ELSE LET old_idx == CHOOSE o \in found : \A o2 \in found : o <= o2
                     moved == IF old_idx # new_idx
                              THEN MapInsert(st.result, UKey(new_idx), MoveMarker(old_idx))
                              ELSE st.result
                 IN DetectMoves(old_hashes, new_hashes, new_idx + 1,
                                [result |-> moved,
                                 processed_old |-> st.processed_old \cup {old_idx},
                                 processed_new |-> st.processed_new \cup {new_idx},
                                 matched |-> st.matched \cup {<<old_idx, new_idx>>}])

\* the second loop of diff_arrays_with_moves_simd
DiffRemainingFrom(old_arr, new_arr, i, options, result, processed_old, processed_new, cache) ==
    IF i >= Max(Len(old_arr), Len(new_arr)) THEN [d |-> Obj(result), c |-> cache]
    ELSE IF i < Len(old_arr) /\ i < Len(new_arr)
            /\ i \notin processed_old /\ i \notin processed_new THEN
        IF ~ValuesEqualSimd(old_arr[i + 1], new_arr[i + 1]) THEN
            LET sub == ComputeStructuralDiff(old_arr[i + 1], new_arr[i + 1], options, cache)
            IN DiffRemainingFrom(old_arr, new_arr, i + 1, options,
                                 MapInsert(result, UKey(i), sub.d),
                                 processed_old, processed_new, sub.c)
        ELSE DiffRemainingFrom(old_arr, new_arr, i + 1, options, result,
                               processed_old, processed_new, cache)
    ELSE IF i < Len(old_arr) /\ i \notin processed_old THEN
        DiffRemainingFrom(old_arr, new_arr, i + 1, options,
                          MapInsert(result, UKey(i), Deletion(old_arr[i + 1])),
                          processed_old, processed_new, cache)
    ELSE IF i < Len(new_arr) /\ i \notin processed_new THEN
        DiffRemainingFrom(old_arr, new_arr, i + 1, options,
                          MapInsert(result, UKey(i), Addition(new_arr[i + 1])),
                          processed_old, processed_new, cache)
    ELSE DiffRemainingFrom(old_arr, new_arr, i + 1, options, result,
                           processed_old, processed_new, cache)

\* result, processed_old and processed_new before the first loop
NothingProcessed ==
    [result |-> EmptyMap, processed_old |-> {}, processed_new |-> {}, matched |-> {}]

\* diff_arrays_with_moves_simd
DiffArraysWithMovesSimd(old_arr, new_arr, options, cache) ==
    LET old_hashes == ElementHashes(old_arr, options, cache)
        new_hashes == ElementHashes(new_arr, options, old_hashes.c)
        st == DetectMoves(old_hashes.hs, new_hashes.hs, 0, NothingProcessed)
    IN DiffRemainingFrom(old_arr, new_arr, 0, options, st.result,
                         st.processed_old, st.processed_new, new_hashes.c)

\* an array diff that never looks for moves
DiffArraysOptimizedNoMoves(old_arr, new_arr, options, cache) ==
    DiffArraysSimpleSimd(old_arr, new_arr, options, cache)

\* diff_arrays_optimized
DiffArraysOptimized(old_arr, new_arr, options, cache) ==
    IF options.include_moves
    THEN DiffArraysWithMovesSimd(old_arr, new_arr, options, cache)
    ELSE DiffArraysSimpleSimd(old_arr, new_arr, options, cache)

\* a diff without the early return for equal values
ComputeStructuralDiffNoEarlyReturn(old, new, options, cache) ==
    IF old.t = "obj" /\ new.t = "obj" THEN
        DiffObjectsOptimized(old.v, new.v, options, cache)
    ELSE IF old.t = "arr" /\ new.t = "arr" THEN
        DiffArraysOptimized(old.v, new.v, options, cache)
    ELSE [d |-> Change(old, new), c |-> cache]

\* compute_structural_diff
ComputeStructuralDiff(old, new, options, cache) ==
    IF ValuesEqualSimd(old, new) THEN [d |-> EmptyDelta, c |-> cache]
    ELSE IF old.t = "obj" /\ new.t = "obj" THEN
        DiffObjectsOptimized(old.v, new.v, options, cache)
    ELSE IF old.t = "arr" /\ new.t = "arr" THEN
        DiffArraysOptimized(old.v, new.v, options, cache)
    ELSE IF old.t = "str" /\ new.t = "str"
            /\ options.text_diff /\ Len(old.v) > options.text_diff_threshold THEN
        [d |-> DiffTextSimd(old.v, new.v), c |-> cache]
    ELSE [d |-> Change(old, new), c |-> cache]

---------------------------------------------------------------------------
(* Structural patch *)

\* patch_arr.len() == 3 && patch_arr[1] == 0 && patch_arr[2] == 0
IsDeletion(p) == p.t = "arr" /\ Len(p.v) = 3 /\ p.v[2] = Num(0) /\ p.v[3] = Num(0)

\* arr.len() == 3 && arr[0] == "" && arr[2] == 3
IsMove(p) == p.t = "arr" /\ Len(p.v) = 3 /\ p.v[1] = Str("") /\ p.v[3] = Num(3)

MinInt(S) == CHOOSE x \in S : \A y \in S : x <= y

MaxInt(S) == CHOOSE x \in S : \A y \in S : x >= y

\* Vec::remove(idx), idx 0-based
VecRemove(a, idx) == SubSeq(a, 1, idx) \o SubSeq(a, idx + 2, Len(a))

\* Vec::insert(idx, x), idx 0-based and at most the length
VecInsert(a, idx, x) == SubSeq(a, 1, idx) \o <<x>> \o SubSeq(a, idx + 1, Len(a))

\* slice_by_char_range: chars start..end of s, both clamped to its length
SliceByCharRange(s, start_char, end_char) ==
    IF start_char >= end_char THEN ""
    ELSE SubSeq(s, start_char + 1, IF end_char <= Len(s) THEN end_char ELSE Len(s))

\* op.get(name).and_then(|v| v.as_array()) of length 2, as (start, end); the
\* as_u64().unwrap_or(0) of each bound
RangeOf(op, name) ==
    IF HasKey(op, name) /\ op.v[name].t = "arr" /\ Len(op.v[name].v) = 2
    THEN <<IF op.v[name].v[1].t = "num" THEN op.v[name].v[1].v ELSE 0,
           IF op.v[name].v[2].t = "num" THEN op.v[name].v[2].v ELSE 0>>
    ELSE <<>>

\* op.get(name).and_then(|v| v.as_str())
StrOf(op, name, default) ==
    IF HasKey(op, name) /\ op.v[name].t = "str" THEN op.v[name].v ELSE default

HasStr(op, name) == HasKey(op, name) /\ op.v[name].t = "str"

RECURSIVE ApplyTextOpsFrom(_, _, _, _, _)
ApplyTextOpsFrom(old_text, ops, i, builder, pos_old_chars) ==
    IF i > Len(ops)
    THEN builder \o SliceByCharRange(old_text, pos_old_chars, Len(old_text))
    ELSE LET op == ops[i]
             op_type == StrOf(op, "op", "")
         IN IF op_type = "delete" /\ RangeOf(op, "range") # <<>> THEN
                ApplyTextOpsFrom(old_text, ops, i + 1,
                    builder \o SliceByCharRange(old_text, pos_old_chars, RangeOf(op, "range")[1]),
                    RangeOf(op, "range")[2])
            ELSE IF op_type = "replace" /\ RangeOf(op, "old_range") # <<>> THEN
                ApplyTextOpsFrom(old_text, ops, i + 1,
                    builder \o SliceByCharRange(old_text, pos_old_chars, RangeOf(op, "old_range")[1])
                            \o StrOf(op, "new_text", ""),
                    RangeOf(op, "old_range")[2])
            ELSE IF op_type = "insert" /\ HasStr(op, "text") THEN
                ApplyTextOpsFrom(old_text, ops, i + 1, builder \o op.v["text"].v, pos_old_chars)
            ELSE ApplyTextOpsFrom(old_text, ops, i + 1, builder, pos_old_chars)

\* apply_text_diff_ops
ApplyTextDiffOps(old_text, ops) == ApplyTextOpsFrom(old_text, ops, 1, "", 0)

RECURSIVE ApplyStructuralPatch(_, _)
RECURSIVE ApplyObjectKeys(_, _, _, _)
RECURSIVE ApplyArrayDelta(_, _)

\* apply_array_patch
ApplyArrayPatch(doc, patch_arr) ==
    IF Len(patch_arr) = 3 /\ patch_arr[2] = Num(0) /\ patch_arr[3] = Num(2) THEN
        IF doc.t = "str" /\ HasKey(patch_arr[1], "text_diff")
           /\ patch_arr[1].v["text_diff"].t = "arr"
        THEN Str(ApplyTextDiffOps(doc.v, patch_arr[1].v["text_diff"].v))
        ELSE doc
    ELSE IF Len(patch_arr) = 1 THEN patch_arr[1]
    ELSE IF Len(patch_arr) = 3 /\ patch_arr[2] = Num(0) /\ patch_arr[3] = Num(0) THEN Null
    ELSE IF Len(patch_arr) = 2 THEN patch_arr[2]
    ELSE doc

\* deletes that clamp an index past the end to the last element instead of
\* skipping it
RECURSIVE ApplyDeletesClamped(_, _)
ApplyDeletesClamped(result, deletes) ==
    IF deletes = {} THEN result
    ELSE LET idx == MaxInt(deletes)
         IN ApplyDeletesClamped(
                IF idx < Len(result) THEN VecRemove(result, idx)
                ELSE IF Len(result) > 0 THEN VecRemove(result, Len(result) - 1)
                ELSE result,
                deletes \ {idx})

\* the deletes of apply_array_delta, in descending index order
RECURSIVE ApplyDeletes(_, _)
ApplyDeletes(result, deletes) ==
    IF deletes = {} THEN result
    ELSE LET idx == MaxInt(deletes)
         IN ApplyDeletes(IF idx < Len(result) THEN VecRemove(result, idx) ELSE result,
                         deletes \ {idx})

\* the moves of apply_array_delta, in ascending destination order; moves maps
\* a destination index to its source index
RECURSIVE ApplyMoves(_, _)
ApplyMoves(result, moves) ==
    IF DOMAIN moves = {} THEN result
    ELSE LET to == MinInt(DOMAIN moves)
             from == moves[to]
             rest == [t \in (DOMAIN moves) \ {to} |-> moves[t]]
         IN IF from < Len(result)
            THEN LET item == result[from + 1]
                     removed == VecRemove(result, from)
                     insert_at == IF to <= Len(removed) THEN to ELSE Len(removed)
                 IN ApplyMoves(VecInsert(removed, insert_at, item), rest)
            ELSE ApplyMoves(result, rest)

\* the changes of apply_array_delta; changes maps an index to the new value
ApplyChanges(result, changes) ==
    [i \in 1..Len(result) |-> IF (i - 1) \in DOMAIN changes THEN changes[i - 1] ELSE result[i]]

\* the inserts of apply_array_delta, in ascending index order; inserts is a
\* sequence of (index, value) in the delta's key order
RECURSIVE ApplyInserts(_, _)
ApplyInserts(result, inserts) ==
    IF Len(inserts) = 0 THEN result
    ELSE LET lowest == MinInt({inserts[j][1] : j \in 1..Len(inserts)})
             first == MinInt({j \in 1..Len(inserts) : inserts[j][1] = lowest})
             insert_at == IF lowest <= Len(result) THEN lowest ELSE Len(result)
             rest == SubSeq(inserts, 1, first - 1) \o SubSeq(inserts, first + 1, Len(inserts))
         IN ApplyInserts(VecInsert(result, insert_at, inserts[first][2]), rest)

\* the index a delta key names: n for "_n" and for "n", -1 otherwise
DeltaIndex(key) ==
    IF StartsWith(key, "_") THEN ParseUsize(SubSeq(key, 2, Len(key))) ELSE ParseUsize(key)

\* the operations apply_array_delta collects from the delta
DeltaDeletes(delta_obj) ==
    {DeltaIndex(k) : k \in {k \in DOMAIN delta_obj :
        StartsWith(k, "_") /\ DeltaIndex(k) >= 0 /\ IsDeletion(delta_obj[k])}}

MoveKeys(delta_obj) ==
    {k \in DOMAIN delta_obj :
        /\ StartsWith(k, "_") /\ DeltaIndex(k) >= 0
        /\ ~IsDeletion(delta_obj[k]) /\ IsMove(delta_obj[k])
        /\ delta_obj[k].v[2].t = "num"}

DeltaMoves(delta_obj) ==
    [to \in {DeltaIndex(k) : k \in MoveKeys(delta_obj)} |->
        delta_obj[CHOOSE k \in MoveKeys(delta_obj) : DeltaIndex(k) = to].v[2].v]

IsInsertKey(delta_obj, k) ==
    /\ DeltaIndex(k) >= 0
    /\ delta_obj[k].t = "arr" /\ Len(delta_obj[k].v) = 1

RECURSIVE DeltaInsertsFrom(_, _, _)
DeltaInsertsFrom(delta_obj, keys, i) ==
    IF i > Len(keys) THEN <<>>
    ELSE (IF IsInsertKey(delta_obj, keys[i])
          THEN <<(<<DeltaIndex(keys[i]), delta_obj[keys[i]].v[1]>>)>>
          ELSE <<>>) \o DeltaInsertsFrom(delta_obj, keys, i + 1)

DeltaInserts(delta_obj) == DeltaInsertsFrom(delta_obj, SortedStrs(DOMAIN delta_obj), 1)

ChangeKeys(existing, delta_obj) ==
    {k \in DOMAIN delta_obj :
        /\ StartsWith(k, "_") /\ DeltaIndex(k) >= 0
        /\ ~IsDeletion(delta_obj[k]) /\ ~IsMove(delta_obj[k])
        /\ ~(delta_obj[k].t = "arr" /\ Len(delta_obj[k].v) = 1)
        /\ \/ (delta_obj[k].t = "arr" /\ Len(delta_obj[k].v) = 2)
           \/ DeltaIndex(k) < Len(existing)}

\* apply_array_delta: the patched elements
ApplyArrayDelta(existing, delta_obj) ==
    LET changes == [idx \in {DeltaIndex(k) : k \in ChangeKeys(existing, delta_obj)} |->
                       LET k == CHOOSE k \in ChangeKeys(existing, delta_obj) : DeltaIndex(k) = idx
                       IN IF delta_obj[k].t = "arr" /\ Len(delta_obj[k].v) = 2
                          THEN delta_obj[k].v[2]
                          ELSE ApplyStructuralPatch(existing[idx + 1], delta_obj[k])]
        after_deletes == ApplyDeletes(existing, DeltaDeletes(delta_obj))
        after_moves == ApplyMoves(after_deletes, DeltaMoves(delta_obj))
        after_changes == ApplyChanges(after_moves, changes)
    IN ApplyInserts(after_changes, DeltaInserts(delta_obj))

\* the loop of apply_object_patch over the keys of the patch
ApplyObjectKeys(result_obj, patch_obj, keys, i) ==
    IF i > Len(keys) THEN result_obj
    ELSE LET key == keys[i]
             patch_val == patch_obj[key]
             next == i + 1
         IN IF key \in DOMAIN result_obj /\ result_obj[key].t = "arr" /\ patch_val.t = "obj" THEN
                ApplyObjectKeys(
                    MapInsert(result_obj, key, Arr(ApplyArrayDelta(result_obj[key].v, patch_val.v))),
                    patch_obj, keys, next)
            ELSE IF StartsWith(key, "_") THEN
                ApplyObjectKeys(result_obj, patch_obj, keys, next)
            ELSE IF IsDeletion(patch_val) THEN
                ApplyObjectKeys(MapRemove(result_obj, key), patch_obj, keys, next)
            ELSE IF patch_val.t = "arr" /\ Len(patch_val.v) = 1 THEN
                ApplyObjectKeys(MapInsert(result_obj, key, patch_val.v[1]), patch_obj, keys, next)
            ELSE IF patch_val.t = "arr" /\ Len(patch_val.v) = 2 THEN
                ApplyObjectKeys(MapInsert(result_obj, key, patch_val.v[2]), patch_obj, keys, next)
            ELSE IF key \in DOMAIN result_obj THEN
                ApplyObjectKeys(
                    MapInsert(result_obj, key, ApplyStructuralPatch(result_obj[key], patch_val)),
                    patch_obj, keys, next)
            ELSE ApplyObjectKeys(MapInsert(result_obj, key, patch_val), patch_obj, keys, next)

\* apply_object_patch
ApplyObjectPatch(doc, patch_obj) ==
    IF doc.t = "obj" THEN Obj(ApplyObjectKeys(doc.v, patch_obj, SortedStrs(DOMAIN patch_obj), 1))
    ELSE IF doc.t = "arr" THEN Arr(ApplyArrayDelta(doc.v, patch_obj))
    ELSE doc

\* apply_structural_patch
ApplyStructuralPatch(doc, p) ==
    IF p.t = "obj" THEN ApplyObjectPatch(doc, p.v)
    ELSE IF p.t = "arr" THEN ApplyArrayPatch(doc, p.v)
    ELSE p

---------------------------------------------------------------------------
(* Semantic diff: triple extraction *)

RDF_TYPE == "http://www.w3.org/1999/02/22-rdf-syntax-ns#type"
XSD_STRING == "http://www.w3.org/2001/XMLSchema#string"
XSD_INTEGER == "http://www.w3.org/2001/XMLSchema#integer"
XSD_DOUBLE == "http://www.w3.org/2001/XMLSchema#double"
XSD_BOOLEAN == "http://www.w3.org/2001/XMLSchema#boolean"

\* str::find(c): 1-based position of the first c in s, 0 when there is none
RECURSIVE FindChar(_, _, _)
FindChar(s, c, i) ==
    IF i > Len(s) THEN 0
    ELSE IF CharAt(s, i) = c THEN i
    ELSE FindChar(s, c, i + 1)

\* str::rfind(['/', '#']): 1-based position of the last '/' or '#', 0 when none
RECURSIVE RFindSep(_, _)
RFindSep(s, i) ==
    IF i = 0 THEN 0
    ELSE IF CharAt(s, i) \in {"/", "#"} THEN i
    ELSE RFindSep(s, i - 1)

\* is_iri
IsIri(s) == StartsWith(s, "http://") \/ StartsWith(s, "https://")

\* expand_property_iri_fast
ExpandPropertyIriFast(property) ==
    IF IsIri(property) THEN property
    ELSE IF FindChar(property, ":", 1) > 0 THEN
        LET at == FindChar(property, ":", 1)
            prefix == SubSeq(property, 1, at - 1)
            local == SubSeq(property, at + 1, Len(property))
        IN IF prefix = "schema" THEN "http://schema.org/" \o local
           ELSE IF prefix = "rdf" THEN "http://www.w3.org/1999/02/22-rdf-syntax-ns#" \o local
           ELSE IF prefix = "rdfs" THEN "http://www.w3.org/2000/01/rdf-schema#" \o local
           ELSE property
    ELSE "http://example.org/" \o property

\* json!({"value": value, "type": type_iri})
TypedLiteral(value, type_iri) ==
    Obj([k \in {"value", "type"} |-> IF k = "value" THEN value ELSE Str(type_iri)])

\* serialize_object_for_rdf
SerializeObjectForRdf(object) ==
    IF object.t = "str" THEN
        IF IsIri(object.v) THEN object ELSE TypedLiteral(object, XSD_STRING)
    ELSE IF object.t = "num" THEN TypedLiteral(Str(ToString(object.v)), XSD_INTEGER)
    ELSE IF object.t = "bool" THEN
        TypedLiteral(Str(IF object.v THEN "true" ELSE "false"), XSD_BOOLEAN)
    ELSE IF object.t = "obj" THEN
        IF HasKey(object, "@id") /\ object.v["@id"].t = "str" THEN object.v["@id"]
        ELSE IF HasKey(object, "@value") THEN
            IF HasKey(object, "@language") /\ object.v["@language"].t = "str" THEN
                Obj([k \in {"value", "language"} |->
                    IF k = "value" THEN object.v["@value"] ELSE object.v["@language"]])
            ELSE IF HasKey(object, "@type") /\ object.v["@type"].t = "str" THEN
                TypedLiteral(object.v["@value"], object.v["@type"].v)
            ELSE TypedLiteral(object.v["@value"], XSD_STRING)
        ELSE object
    ELSE object

\* json!({"subject": subject, "predicate": predicate, "object": object})
Triple(subject, predicate, object) ==
    Obj([k \in {"subject", "predicate", "object"} |->
        IF k = "subject" THEN Str(subject)
        ELSE IF k = "predicate" THEN Str(predicate)
        ELSE object])

\* The extraction threads st = [cache, triples, fresh]: the bnode_cache (from
\* the key-sorted serialization of an object, which this model identifies with
\* the object, Map being unordered here), the triples pushed so far, and the
\* identifiers "_:h<uuid>" that Uuid::new_v4 will hand out next.
RECURSIVE ExtractTriplesNodeFast(_, _)
RECURSIVE ExtractTypes(_, _, _, _)
RECURSIVE ExtractProperties(_, _, _, _, _)
RECURSIVE EmitItems(_, _, _, _, _)
RECURSIVE EmitTripleForValue(_, _, _, _)

Push(st, triple) == [st EXCEPT !.triples = Append(st.triples, triple)]

\* for ty in arr { if let Value::String(ts) = ty { triples.push(..) } }
ExtractTypes(subject, arr, i, st) ==
    IF i > Len(arr) THEN st
    ELSE ExtractTypes(subject, arr, i + 1,
            IF arr[i].t = "str"
            THEN Push(st, Triple(subject, RDF_TYPE, Str(ExpandPropertyIriFast(arr[i].v))))
            ELSE st)

\* for item in arr { emit_triple_for_value(subject, pred, item, ..) }
EmitItems(subject, pred, arr, i, st) ==
    IF i > Len(arr) THEN st
    ELSE EmitItems(subject, pred, arr, i + 1, EmitTripleForValue(subject, pred, arr[i], st))

\* for (k, v) in obj.iter(), in the map's key order
ExtractProperties(subject, obj, keys, i, st) ==
    IF i > Len(keys) THEN st
    ELSE IF StartsWith(keys[i], "@") THEN ExtractProperties(subject, obj, keys, i + 1, st)
    ELSE LET pred == ExpandPropertyIriFast(keys[i])
             val == obj[keys[i]]
         IN ExtractProperties(subject, obj, keys, i + 1,
                IF val.t = "arr" THEN EmitItems(subject, pred, val.v, 1, st)
                ELSE EmitTripleForValue(subject, pred, val, st))

\* extract_triples_node_fast on an object: [subject, st]
ExtractTriplesNodeFast(node, st) ==
    LET has_id == HasKey(node, "@id") /\ node.v["@id"].t = "str"
        cached == node \in DOMAIN st.cache
        subject == IF has_id THEN node.v["@id"].v
                   ELSE IF cached THEN st.cache[node]
                   ELSE Head(st.fresh)
        st1 == IF has_id \/ cached THEN st
               ELSE [st EXCEPT !.cache = MapInsert(st.cache, node, Head(st.fresh)),
                               !.fresh = Tail(st.fresh)]
        st2 == IF ~HasKey(node, "@type") THEN st1
               ELSE IF node.v["@type"].t = "arr" THEN ExtractTypes(subject, node.v["@type"].v, 1, st1)
               ELSE IF node.v["@type"].t = "str"
                   THEN Push(st1, Triple(subject, RDF_TYPE, Str(ExpandPropertyIriFast(node.v["@type"].v))))
               ELSE st1
    IN [subject |-> subject,
        st |-> ExtractProperties(subject, node.v, SortedStrs(DOMAIN node.v), 1, st2)]

\* emit_triple_for_value
EmitTripleForValue(subject, pred, value, st) ==
    IF value.t = "obj" THEN
        IF HasKey(value, "@id") /\ value.v["@id"].t = "str" THEN
            Push(st, Triple(subject, pred, value.v["@id"]))
        ELSE IF HasKey(value, "@value") THEN
            Push(st, Triple(subject, pred, SerializeObjectForRdf(value)))
        ELSE LET nested == ExtractTriplesNodeFast(value, st)
             IN Push(nested.st, Triple(subject, pred, Str(nested.subject)))
    ELSE IF value.t = "str" THEN
        IF IsIri(value.v) THEN Push(st, Triple(subject, pred, value))
        ELSE Push(st, Triple(subject, pred, TypedLiteral(value, XSD_STRING)))
    ELSE IF value.t \in {"num", "bool"} THEN
        Push(st, Triple(subject, pred, SerializeObjectForRdf(value)))
    ELSE st

\* extract_triples_node_fast on the root: an object, the items of an array
\* in turn, or nothing
RECURSIVE ExtractRootItems(_, _, _)
ExtractRootItems(arr, i, st) ==
    IF i > Len(arr) THEN st
    ELSE ExtractRootItems(arr, i + 1,
            IF arr[i].t = "obj" THEN ExtractTriplesNodeFast(arr[i], st).st
            ELSE IF arr[i].t = "arr" THEN ExtractRootItems(arr[i].v, 1, st)
            ELSE st)

ExtractRoot(doc, st) ==
    IF doc.t = "obj" THEN ExtractTriplesNodeFast(doc, st).st
    ELSE IF doc.t = "arr" THEN ExtractRootItems(doc.v, 1, st)
    ELSE st

IsBlank(val) == val.t = "str" /\ StartsWith(val.v, "_:")

\* format!("_:h{:08}", i)
CanonicalLabel(i) == "_:h" \o SubSeq("00000000", 1, 8 - Len(ToString(i))) \o ToString(i)

\* normalize_blank_nodes_fast
NormalizeBlankNodesFast(triples) ==
    LET bnodes == {triples[i].v["subject"].v : i \in {i \in 1..Len(triples) : IsBlank(triples[i].v["subject"])}}
                  \cup {triples[i].v["object"].v : i \in {i \in 1..Len(triples) : IsBlank(triples[i].v["object"])}}
        bnodes_vec == SortedStrs(bnodes)
        Label(val) == IF IsBlank(val)
                      THEN Str(CanonicalLabel((CHOOSE j \in 1..Len(bnodes_vec) : bnodes_vec[j] = val.v) - 1))
                      ELSE val
    IN [i \in 1..Len(triples) |->
           Obj([k \in {"subject", "predicate", "object"} |->
               IF k = "predicate" THEN triples[i].v[k] ELSE Label(triples[i].v[k])])]

\* document_to_triples_fast; fresh is what the uuid generator hands out
DocumentToTriplesFast(doc, fresh) ==
    NormalizeBlankNodesFast(
        ExtractRoot(doc, [cache |-> EmptyMap, triples |-> <<>>, fresh |-> fresh]).triples)

---------------------------------------------------------------------------
(* Semantic diff: comparison of triples and contexts *)

\* Value::to_string: the compact JSON text of a value (strings in the model
\* need no escaping)
RECURSIVE ToJsonString(_)
RECURSIVE JoinItems(_, _)
RECURSIVE JoinEntries(_, _, _)
ToJsonString(val) ==
    IF val.t = "null" THEN "null"
    ELSE IF val.t = "bool" THEN (IF val.v THEN "true" ELSE "false")
    ELSE IF val.t = "num" THEN ToString(val.v)
    ELSE IF val.t = "str" THEN "\"" \o val.v \o "\""
    ELSE IF val.t = "arr" THEN "[" \o JoinItems(val.v, 1) \o "]"
    ELSE "{" \o JoinEntries(val.v, SortedStrs(DOMAIN val.v), 1) \o "}"

JoinItems(arr, i) ==
    IF i > Len(arr) THEN ""
    ELSE (IF i > 1 THEN "," ELSE "") \o ToJsonString(arr[i]) \o JoinItems(arr, i + 1)

JoinEntries(obj, keys, i) ==
    IF i > Len(keys) THEN ""
    ELSE (IF i > 1 THEN "," ELSE "") \o "\"" \o keys[i] \o "\":" \o ToJsonString(obj[keys[i]])
         \o JoinEntries(obj, keys, i + 1)

\* parse_semantic_options
DefaultSemanticOptions ==
    [normalize |-> TRUE, context_aware |-> TRUE, expand_contexts |-> TRUE,
     blank_node_strategy |-> "uuid"]

ParseSemanticOption(options, key, value) ==
    IF key = "normalize" THEN [options EXCEPT !.normalize = (value = "true")]
    ELSE IF key = "context_aware" THEN [options EXCEPT !.context_aware = (value = "true")]
    ELSE IF key = "expand_contexts" THEN [options EXCEPT !.expand_contexts = (value = "true")]
    ELSE IF key = "blank_node_strategy" THEN
        [options EXCEPT !.blank_node_strategy =
            IF value = "hash" THEN "hash" ELSE IF value = "preserve" THEN "preserve" ELSE "uuid"]
    ELSE options

RECURSIVE ParseSemanticOptionsFrom(_, _, _)
ParseSemanticOptionsFrom(options, list, i) ==
    IF i > Len(list) THEN options
    ELSE ParseSemanticOptionsFrom(ParseSemanticOption(options, list[i][1], list[i][2]), list, i + 1)

ParseSemanticOptions(list) == ParseSemanticOptionsFrom(DefaultSemanticOptions, list, 1)

\* extract_context_fast
ExtractContextFast(doc) ==
    IF HasKey(doc, "@context") /\ doc.v["@context"].t = "obj" THEN doc.v["@context"].v
    ELSE EmptyMap

\* flatten_context_fast
FlattenContextFast(ctx) ==
    [k \in DOMAIN ctx |-> IF ctx[k].t = "str" THEN ctx[k].v ELSE ToJsonString(ctx[k])]

\* compare_contexts_fast
CompareContextsFast(old, new) ==
    LET old_context == ExtractContextFast(old)
        new_context == ExtractContextFast(new)
        old_map == FlattenContextFast(old_context)
        new_map == FlattenContextFast(new_context)
        common == {k \in DOMAIN old_map \cap DOMAIN new_map : old_map[k] # new_map[k]}
        Base(ctx) == IF "@base" \in DOMAIN ctx THEN ctx["@base"] ELSE Null
    IN Obj([f \in {"added_mappings", "removed_mappings", "changed_mappings", "base_changes"} |->
        IF f = "added_mappings"
            THEN Obj([k \in DOMAIN new_map \ DOMAIN old_map |-> Str(new_map[k])])
        ELSE IF f = "removed_mappings"
            THEN Obj([k \in DOMAIN old_map \ DOMAIN new_map |-> Str(old_map[k])])
        ELSE IF f = "changed_mappings"
            THEN Obj([k \in common |-> Arr(<<Str(old_map[k]), Str(new_map[k])>>)])
        ELSE Arr(<<Base(old_context), Base(new_context)>>)])

\* the context_changes of a diff computed with context_aware = false
NoContextChanges ==
    Obj([f \in {"added_mappings", "removed_mappings", "changed_mappings", "base_changes"} |->
        IF f = "base_changes" THEN Arr(<<Null, Null>>) ELSE Obj(EmptyMap)])

\* new_set.difference(&old_set): the distinct triples of a that are not in b.
\* The hash set yields them in an unspecified order; the model takes the order
\* of extraction.
RECURSIVE TripleDifference(_, _, _, _)
TripleDifference(a, b, i, acc) ==
    IF i > Len(a) THEN acc
    ELSE TripleDifference(a, b, i + 1,
            IF (\E j \in 1..Len(b) : b[j] = a[i]) \/ (\E j \in 1..Len(acc) : acc[j] = a[i])
            THEN acc ELSE Append(acc, a[i]))

\* t.get(field).and_then(|v| v.as_str()).unwrap_or("")
FieldStr(t, field) == IF HasKey(t, field) /\ t.v[field].t = "str" THEN t.v[field].v ELSE ""

\* t.get("object").cloned().unwrap_or(Value::Null)
ObjectOf(t) == IF HasKey(t, "object") THEN t.v["object"] ELSE Null

\* buckets keyed by the subject alone: the triples of list with the given
\* subject, whatever their predicate
RECURSIVE TriplesOfSubject(_, _, _, _)
TriplesOfSubject(list, subj, pred, i) ==
    IF i > Len(list) THEN <<>>
    ELSE (IF FieldStr(list[i], "subject") = subj THEN <<list[i]>> ELSE <<>>)
            \o TriplesOfSubject(list, subj, pred, i + 1)

\* the triples of list with the given subject and predicate, in list order
RECURSIVE TriplesFor(_, _, _, _)
TriplesFor(list, subj, pred, i) ==
    IF i > Len(list) THEN <<>>
    ELSE (IF FieldStr(list[i], "subject") = subj /\ FieldStr(list[i], "predicate") = pred
          THEN <<list[i]>> ELSE <<>>) \o TriplesFor(list, subj, pred, i + 1)

AddedProp(pred, t) ==
    Obj([f \in {"property", "new_value", "change_type"} |->
        IF f = "property" THEN Str(pred) ELSE IF f = "new_value" THEN ObjectOf(t) ELSE Str("value")])

RemovedProp(pred, t) ==
    Obj([f \in {"property", "old_value", "change_type"} |->
        IF f = "property" THEN Str(pred) ELSE IF f = "old_value" THEN ObjectOf(t) ELSE Str("value")])

ModifiedProp(pred, r, a) ==
    Obj([f \in {"property", "old_value", "new_value", "change_type"} |->
        IF f = "property" THEN Str(pred)
        ELSE IF f = "old_value" THEN ObjectOf(r)
        ELSE IF f = "new_value" THEN ObjectOf(a)
        ELSE Str("value")])

\* the loop over the predicates of one node; the HashSet of predicates is
\* visited in sorted order. which is "added", "removed" or "modified".
RECURSIVE NodeProps(_, _, _, _, _, _)
NodeProps(which, added, removed, node_id, preds, i) ==
    IF i > Len(preds) THEN <<>>
    ELSE LET pred == preds[i]
             adds == TriplesFor(added, node_id, pred, 1)
             rems == TriplesFor(removed, node_id, pred, 1)
             paired == adds # <<>> /\ rems # <<>>
             here == IF which = "modified" THEN
                         (IF paired THEN <<ModifiedProp(pred, rems[1], adds[1])>> ELSE <<>>)
                     ELSE IF which = "added" THEN
                         [j \in 1..(Len(adds) - (IF paired THEN 1 ELSE 0)) |->
                             AddedProp(pred, adds[j + (IF paired THEN 1 ELSE 0)])]
                     ELSE [j \in 1..(Len(rems) - (IF paired THEN 1 ELSE 0)) |->
                             RemovedProp(pred, rems[j + (IF paired THEN 1 ELSE 0)])]
         IN here \o NodeProps(which, added, removed, node_id, preds, i + 1)

\* group_changes_by_node_fast
GroupChangesByNodeFast(added, removed) ==
    LET all == added \o removed
        nodes == SortedStrs({FieldStr(all[i], "subject") : i \in 1..Len(all)})
        PredsOf(node_id) ==
            SortedStrs({FieldStr(all[i], "predicate") :
                i \in {i \in 1..Len(all) : FieldStr(all[i], "subject") = node_id}})
    IN [n \in 1..Len(nodes) |->
        Obj([f \in {"node_id", "added_properties", "removed_properties", "modified_properties"} |->
            IF f = "node_id" THEN Str(nodes[n])
            ELSE IF f = "added_properties"
                THEN Arr(NodeProps("added", added, removed, nodes[n], PredsOf(nodes[n]), 1))
            ELSE IF f = "removed_properties"
                THEN Arr(NodeProps("removed", added, removed, nodes[n], PredsOf(nodes[n]), 1))
            ELSE Arr(NodeProps("modified", added, removed, nodes[n], PredsOf(nodes[n]), 1))])]

\* compute_semantic_diff; fresh_old and fresh_new are the identifiers the uuid
\* generator hands out during the two extractions
ComputeSemanticDiff(old, new, options, fresh_old, fresh_new) ==
    LET old_triples == DocumentToTriplesFast(old, fresh_old)
        new_triples == DocumentToTriplesFast(new, fresh_new)
        added_triples == TripleDifference(new_triples, old_triples, 1, <<>>)
        removed_triples == TripleDifference(old_triples, new_triples, 1, <<>>)
        metadata == Obj([f \in {"normalization_algorithm", "blank_node_handling", "semantic_equivalence"} |->
            IF f = "normalization_algorithm" THEN Str("urdna2015")
            ELSE IF f = "blank_node_handling" THEN Str(options.blank_node_strategy)
            ELSE Bool(added_triples = <<>> /\ removed_triples = <<>>)])
    IN Obj([f \in {"added_triples", "removed_triples", "modified_nodes", "context_changes", "metadata"} |->
        IF f = "added_triples" THEN Arr(added_triples)
        ELSE IF f = "removed_triples" THEN Arr(removed_triples)
        ELSE IF f = "modified_nodes" THEN Arr(GroupChangesByNodeFast(added_triples, removed_triples))
        ELSE IF f = "context_changes" THEN
            (IF options.context_aware THEN CompareContextsFast(old, new) ELSE NoContextChanges)
        ELSE metadata])

---------------------------------------------------------------------------
(* Semantic patch *)

\* iri_local_name
IriLocalName(iri) ==
    LET pos == RFindSep(iri, Len(iri))
    IN IF pos > 0 THEN SubSeq(iri, pos + 1, Len(iri)) ELSE iri

\* object_to_type_local: [some, val]
ObjectToTypeLocal(t) ==
    IF ~HasKey(t, "object") THEN [some |-> FALSE, val |-> ""]
    ELSE IF t.v["object"].t = "str" THEN [some |-> TRUE, val |-> IriLocalName(t.v["object"].v)]
    ELSE IF HasKey(t.v["object"], "@id") /\ t.v["object"].v["@id"].t = "str"
        THEN [some |-> TRUE, val |-> IriLocalName(t.v["object"].v["@id"].v)]
    ELSE [some |-> FALSE, val |-> ""]

\* s.parse::<i64>() for the decimal strings Number::to_string produces:
\* [ok, val]
ParseI64(s) ==
    IF Len(s) > 1 /\ CharAt(s, 1) = "-" THEN
        LET n == ParseUsize(SubSeq(s, 2, Len(s)))
        IN [ok |-> n >= 0, val |-> 0 - n]
    ELSE LET n == ParseUsize(s) IN [ok |-> n >= 0, val |-> n]

\* object_to_json_value
ObjectToJsonValue(t) ==
    IF ~HasKey(t, "object") THEN Null
    ELSE LET o == t.v["object"] IN
        IF o.t = "str" THEN o
        ELSE IF o.t = "obj" THEN
            IF HasKey(o, "@id") /\ o.v["@id"].t = "str" THEN o.v["@id"]
            ELSE LET val == IF HasKey(o, "value") THEN o.v["value"] ELSE Null IN
                IF HasKey(o, "type") /\ o.v["type"].t = "str" THEN
                    IF o.v["type"].v \in {XSD_INTEGER, XSD_DOUBLE} THEN
                        IF val.t = "str" /\ ParseI64(val.v).ok THEN Num(ParseI64(val.v).val) ELSE val
                    ELSE IF o.v["type"].v = XSD_BOOLEAN THEN
                        IF val = Str("true") THEN Bool(TRUE)
                        ELSE IF val = Str("false") THEN Bool(FALSE)
                        ELSE val
                    ELSE val
                ELSE val
        ELSE o

\* doc.get("@id").and_then(|v| v.as_str()): [some, val]
RootId(doc) ==
    IF HasKey(doc, "@id") /\ doc.v["@id"].t = "str" THEN [some |-> TRUE, val |-> doc.v["@id"].v]
    ELSE [some |-> FALSE, val |-> ""]

\* a patch that takes every triple with a string subject and predicate for
\* one on the root
OnAnySubject(t, root_id) ==
    /\ HasKey(t, "subject") /\ t.v["subject"].t = "str"
    /\ HasKey(t, "predicate") /\ t.v["predicate"].t = "str"

\* the triple names subject and predicate as strings and its subject is the
\* root's @id
OnRoot(t, root_id) ==
    /\ HasKey(t, "subject") /\ t.v["subject"].t = "str"
    /\ HasKey(t, "predicate") /\ t.v["predicate"].t = "str"
    /\ root_id.some /\ t.v["subject"].v = root_id.val

Contains(arr, val) == \E j \in 1..Len(arr) : arr[j] = val

\* Vec::retain(|v| v != val)
RECURSIVE Retain(_, _)
Retain(arr, val) ==
    IF arr = <<>> THEN <<>>
    ELSE (IF Head(arr) = val THEN <<>> ELSE <<Head(arr)>>) \o Retain(Tail(arr), val)

\* one iteration of the loop of apply_triple_additions
ApplyTripleAddition(doc, t, root_id) ==
    IF ~OnRoot(t, root_id) THEN doc
    ELSE IF t.v["predicate"].v = RDF_TYPE THEN
        LET ts == ObjectToTypeLocal(t) IN
        IF ~ts.some THEN doc
        ELSE IF HasKey(doc, "@type") /\ doc.v["@type"].t = "str" THEN
            IF doc.v["@type"].v # ts.val
            THEN Obj(MapInsert(doc.v, "@type", Arr(<<doc.v["@type"], Str(ts.val)>>)))
            ELSE doc
        ELSE IF HasKey(doc, "@type") /\ doc.v["@type"].t = "arr" THEN
            IF ~Contains(doc.v["@type"].v, Str(ts.val))
            THEN Obj(MapInsert(doc.v, "@type", Arr(Append(doc.v["@type"].v, Str(ts.val)))))
            ELSE doc
        ELSE IF doc.t = "obj" THEN Obj(MapInsert(doc.v, "@type", Str(ts.val)))
        ELSE doc
    ELSE
        LET key == IriLocalName(t.v["predicate"].v)
            new_val == ObjectToJsonValue(t)
            objm == IF doc.t = "obj" THEN doc.v ELSE EmptyMap
        IN IF key \notin DOMAIN objm THEN Obj(MapInsert(objm, key, new_val))
           ELSE IF objm[key].t = "arr" THEN
               IF ~Contains(objm[key].v, new_val)
               THEN Obj(MapInsert(objm, key, Arr(Append(objm[key].v, new_val))))
               ELSE Obj(objm)
           ELSE IF objm[key] # new_val
               THEN Obj(MapInsert(objm, key, Arr(<<objm[key], new_val>>)))
           ELSE Obj(objm)

\* apply_triple_additions
RECURSIVE ApplyAdditionsFrom(_, _, _, _)
ApplyAdditionsFrom(doc, added, root_id, i) ==
    IF i > Len(added) THEN doc
    ELSE ApplyAdditionsFrom(ApplyTripleAddition(doc, added[i], root_id), added, root_id, i + 1)

ApplyTripleAdditions(doc, added) == ApplyAdditionsFrom(doc, added, RootId(doc), 1)

\* one iteration of the loop of apply_triple_removals
ApplyTripleRemoval(doc, t, root_id) ==
    IF ~OnRoot(t, root_id) THEN doc
    ELSE IF t.v["predicate"].v = RDF_TYPE THEN
        LET ts == ObjectToTypeLocal(t) IN
        IF ~ts.some THEN doc
        ELSE IF HasKey(doc, "@type") /\ doc.v["@type"].t = "str" THEN
            IF doc.v["@type"].v = ts.val THEN Obj(MapRemove(doc.v, "@type")) ELSE doc
        ELSE IF HasKey(doc, "@type") /\ doc.v["@type"].t = "arr" THEN
            LET arr == Retain(doc.v["@type"].v, Str(ts.val))
            IN Obj(MapInsert(doc.v, "@type", IF Len(arr) = 1 THEN arr[1] ELSE Arr(arr)))
        ELSE doc
    ELSE
        LET key == IriLocalName(t.v["predicate"].v)
            rem_val == ObjectToJsonValue(t)
        IN IF doc.t # "obj" \/ key \notin DOMAIN doc.v THEN doc
           ELSE IF doc.v[key].t = "arr" THEN
               LET arr == Retain(doc.v[key].v, rem_val)
               IN IF Len(arr) = 1 THEN Obj(MapInsert(doc.v, key, arr[1]))
                  ELSE IF arr = <<>> THEN Obj(MapRemove(doc.v, key))
                  ELSE Obj(MapInsert(doc.v, key, Arr(arr)))
           ELSE IF doc.v[key] = rem_val THEN Obj(MapRemove(doc.v, key))
           ELSE doc

\* apply_triple_removals
RECURSIVE ApplyRemovalsFrom(_, _, _, _)
ApplyRemovalsFrom(doc, removed, root_id, i) ==
    IF i > Len(removed) THEN doc
    ELSE ApplyRemovalsFrom(ApplyTripleRemoval(doc, removed[i], root_id), removed, root_id, i + 1)

ApplyTripleRemovals(doc, removed) == ApplyRemovalsFrom(doc, removed, RootId(doc), 1)

\* changes.get(field).and_then(|v| v.as_object()), empty when absent
MappingsOf(changes, field) ==
    IF field \in DOMAIN changes /\ changes[field].t = "obj" THEN changes[field].v ELSE EmptyMap

\* apply_context_changes_fast
ApplyContextChangesFast(doc, changes) ==
    LET ctx0 == ExtractContextFast(doc)
        added == MappingsOf(changes, "added_mappings")
        removed == MappingsOf(changes, "removed_mappings")
        changed == MappingsOf(changes, "changed_mappings")
        ctx1 == [k \in DOMAIN ctx0 \cup DOMAIN added |-> IF k \in DOMAIN added THEN added[k] ELSE ctx0[k]]
        ctx2 == [k \in DOMAIN ctx1 \ DOMAIN removed |-> ctx1[k]]
        pairs == {k \in DOMAIN changed : changed[k].t = "arr" /\ Len(changed[k].v) = 2}
        ctx3 == [k \in DOMAIN ctx2 \cup pairs |-> IF k \in pairs THEN changed[k].v[2] ELSE ctx2[k]]
    IN IF doc.t = "obj" THEN Obj(MapInsert(doc.v, "@context", Obj(ctx3))) ELSE doc

\* patch_semantic
PatchSemanticDoc(doc, patch_val) ==
    LET r1 == IF HasKey(patch_val, "added_triples") /\ patch_val.v["added_triples"].t = "arr"
              THEN ApplyTripleAdditions(doc, patch_val.v["added_triples"].v) ELSE doc
        r2 == IF HasKey(patch_val, "removed_triples") /\ patch_val.v["removed_triples"].t = "arr"
              THEN ApplyTripleRemovals(r1, patch_val.v["removed_triples"].v) ELSE r1
    IN IF HasKey(patch_val, "context_changes") /\ patch_val.v["context_changes"].t = "obj"
       THEN ApplyContextChangesFast(r2, patch_val.v["context_changes"].v) ELSE r2

---------------------------------------------------------------------------
(* Operational diff *)

\* the width of base_timestamp and of the running timestamp (u64), scaled to
\* the size of the model
U64Bits == 3

U64Max == 2^U64Bits - 1

\* str::parse::<u64>: the number, or -1 for Err (not a number, or out of range)
ParseU64(s) == IF ParseUsize(s) <= U64Max THEN ParseUsize(s) ELSE 0 - 1

\* *timestamp += 1 of a build without overflow checks
WrappingIncrement(t) == (t + 1) % (U64Max + 1)

\* parse_operational_options; actor_id and now are what generate_actor_id and
\* current_timestamp_nanos return
DefaultOperationalOptions(actor_id, now) ==
    [actor_id |-> actor_id, base_timestamp |-> now, conflict_resolution |-> "last_write_wins"]

ParseOperationalOption(options, key, value) ==
    IF key = "actor_id" THEN [options EXCEPT !.actor_id = value]
    ELSE IF key = "timestamp" THEN
        (IF ParseU64(value) >= 0 THEN [options EXCEPT !.base_timestamp = ParseU64(value)]
         ELSE options)
    ELSE IF key = "conflict_resolution" THEN
        [options EXCEPT !.conflict_resolution = IF value = "merge" THEN "merge" ELSE "last_write_wins"]
    ELSE options

RECURSIVE ParseOperationalOptionsFrom(_, _, _)
ParseOperationalOptionsFrom(options, list, i) ==
    IF i > Len(list) THEN options
    ELSE ParseOperationalOptionsFrom(
            ParseOperationalOption(options, list[i][1], list[i][2]), list, i + 1)

ParseOperationalOptions(list, actor_id, now) ==
    ParseOperationalOptionsFrom(DefaultOperationalOptions(actor_id, now), list, 1)

\* json!({"type": .., "path": .., "value": .., "timestamp": .., "actor_id": ..})
Operation(type, path, value, timestamp, actor_id) ==
    Obj([f \in {"type", "path", "value", "timestamp", "actor_id"} |->
        IF f = "type" THEN Str(type)
        ELSE IF f = "path" THEN Arr([i \in 1..Len(path) |-> Str(path[i])])
        ELSE IF f = "value" THEN value
        ELSE IF f = "timestamp" THEN Num(timestamp)
        ELSE Str(actor_id)])

\* operations.push(..); *timestamp += 1, on the state [operations, timestamp]
Emit(st, type, path, value, options) ==
    [operations |-> Append(st.operations, Operation(type, path, value, st.timestamp, options.actor_id)),
     timestamp |-> WrappingIncrement(st.timestamp)]

RECURSIVE DiffValuesOperational(_, _, _, _, _)
RECURSIVE DiffObjectsOperationalFrom(_, _, _, _, _, _, _)

\* the first loop of diff_arrays_operational: delete old items, last first
RECURSIVE DeleteOldItems(_, _, _, _)
DeleteOldItems(i, path, options, st) ==
    IF i < 0 THEN st
    ELSE DeleteOldItems(i - 1, path, options,
            Emit(st, "delete", Append(path, ToString(i)), Null, options))

\* the second loop of diff_arrays_operational: insert new items, first first
RECURSIVE InsertNewItems(_, _, _, _, _)
InsertNewItems(new_arr, i, path, options, st) ==
    IF i >= Len(new_arr) THEN st
    ELSE InsertNewItems(new_arr, i + 1, path, options,
            Emit(st, "insert", Append(path, ToString(i)), new_arr[i + 1], options))

\* diff_arrays_operational
DiffArraysOperational(old_arr, new_arr, path, options, st) ==
    InsertNewItems(new_arr, 0, path, options,
        DeleteOldItems(Len(old_arr) - 1, path, options, st))

\* the loop of diff_objects_operational over old_keys.union(&new_keys): the
\* keys of old, then the keys only new has, each group in sorted order
DiffObjectsOperationalFrom(old_obj, new_obj, keys, i, path, options, st) ==
    IF i > Len(keys) THEN st
    ELSE LET key == keys[i]
             new_path == Append(path, key)
             next ==
                 IF key \in DOMAIN old_obj /\ key \in DOMAIN new_obj THEN
                     DiffValuesOperational(old_obj[key], new_obj[key], new_path, options, st)
                 ELSE IF key \in DOMAIN old_obj THEN Emit(st, "delete", new_path, Null, options)
                 ELSE Emit(st, "set", new_path, new_obj[key], options)
         IN DiffObjectsOperationalFrom(old_obj, new_obj, keys, i + 1, path, options, next)

\* diff_objects_operational
DiffObjectsOperational(old_obj, new_obj, path, options, st) ==
    DiffObjectsOperationalFrom(old_obj, new_obj,
        SortedStrs(DOMAIN old_obj) \o SortedStrs(DOMAIN new_obj \ DOMAIN old_obj),
        1, path, options, st)

\* diff_values_operational
DiffValuesOperational(old, new, path, options, st) ==
    IF ValuesEqualSimd(old, new) THEN st
    ELSE IF old.t = "obj" /\ new.t = "obj" THEN
        DiffObjectsOperational(old.v, new.v, path, options, st)
    ELSE IF old.t = "arr" /\ new.t = "arr" THEN
        DiffArraysOperational(old.v, new.v, path, options, st)
    ELSE Emit(st, "set", path, new, options)

\* compute_operational_diff
ComputeOperationalDiff(old, new, options) ==
    LET st == DiffValuesOperational(old, new, <<>>, options,
                  [operations |-> <<>>, timestamp |-> options.base_timestamp])
        metadata == Obj([f \in {"actors", "timestamp_range", "conflict_resolution"} |->
            IF f = "actors" THEN Arr(<<Str(options.actor_id)>>)
            ELSE IF f = "timestamp_range" THEN Arr(<<Num(options.base_timestamp), Num(st.timestamp)>>)
            ELSE Str(options.conflict_resolution)])
    IN Obj([f \in {"operations", "metadata"} |->
        IF f = "operations" THEN Arr(st.operations) ELSE metadata])

---------------------------------------------------------------------------
(* Operational patch and merge *)

\* op.get("timestamp").and_then(|v| v.as_u64()).unwrap_or(0)
TimestampOf(op) ==
    IF HasKey(op, "timestamp") /\ op.v["timestamp"].t = "num" /\ op.v["timestamp"].v >= 0
    THEN op.v["timestamp"].v ELSE 0

\* one step of a sort that is not stable: op goes before the elements whose
\* key equals its own
RECURSIVE InsertBeforeEqual(_, _)
InsertBeforeEqual(sorted, op) ==
    IF sorted = <<>> THEN <<op>>
    ELSE IF TimestampOf(Head(sorted)) < TimestampOf(op)
        THEN <<Head(sorted)>> \o InsertBeforeEqual(Tail(sorted), op)
    ELSE <<op>> \o sorted

\* one step of the stable sort: op goes after every element whose key is not
\* greater than its own
RECURSIVE InsertByTimestamp(_, _)
InsertByTimestamp(sorted, op) ==
    IF sorted = <<>> THEN <<op>>
    ELSE IF TimestampOf(Head(sorted)) <= TimestampOf(op)
        THEN <<Head(sorted)>> \o InsertByTimestamp(Tail(sorted), op)
    ELSE <<op>> \o sorted

RECURSIVE SortFrom(_, _, _)
SortFrom(ops, i, sorted) ==
    IF i > Len(ops) THEN sorted
    ELSE SortFrom(ops, i + 1, InsertByTimestamp(sorted, ops[i]))

\* a replay that applies the operations in the order given
KeepOrder(ops) == ops

\* sort_by_key(timestamp), which is stable
SortByTimestamp(ops) == SortFrom(ops, 1, <<>>)

\* n.as_u64().and_then(|i| usize::try_from(i).ok()) on a path key, -1 for None
IndexOf(key) == IF key.t = "num" /\ key.v >= 0 THEN key.v ELSE 0 - 1

\* arr[idx] = x, for sequences indexed from 1
SetItem(arr, idx, x) == [arr EXCEPT ![idx + 1] = x]

\* set_value_at_path_recursive
RECURSIVE SetValueAtPathRecursive(_, _, _, _)
SetValueAtPathRecursive(current, path, index, value) ==
    IF index > Len(path) THEN current
    ELSE LET key == path[index]
             is_last == index = Len(path)
             idx == IndexOf(key)
         IN IF current.t = "obj" /\ key.t = "str" THEN
                IF is_last THEN Obj(MapInsert(current.v, key.v, value))
                ELSE IF key.v \in DOMAIN current.v THEN
                    Obj(MapInsert(current.v, key.v,
                        SetValueAtPathRecursive(current.v[key.v], path, index + 1, value)))
                ELSE current
            ELSE IF current.t = "arr" /\ key.t = "num" /\ idx >= 0 /\ idx < Len(current.v) THEN
                IF is_last THEN Arr(SetItem(current.v, idx, value))
                ELSE Arr(SetItem(current.v, idx,
                        SetValueAtPathRecursive(current.v[idx + 1], path, index + 1, value)))
            ELSE current

\* set_value_at_path
SetValueAtPath(doc, path, value) ==
    IF path = <<>> THEN value ELSE SetValueAtPathRecursive(doc, path, 1, value)

\* delete_value_at_path::recurse
RECURSIVE DeleteRecurse(_, _, _)
DeleteRecurse(current, path, index) ==
    IF index > Len(path) THEN current
    ELSE LET key == path[index]
             is_last == index = Len(path)
             idx == IndexOf(key)
         IN IF current.t = "obj" /\ key.t = "str" THEN
                IF is_last THEN
                    (IF key.v \in DOMAIN current.v THEN Obj(MapRemove(current.v, key.v)) ELSE current)
                ELSE IF key.v \in DOMAIN current.v THEN
                    Obj(MapInsert(current.v, key.v, DeleteRecurse(current.v[key.v], path, index + 1)))
                ELSE current
            ELSE IF current.t = "arr" /\ key.t = "num" /\ idx >= 0 /\ idx < Len(current.v) THEN
                IF is_last THEN Arr(VecRemove(current.v, idx))
                ELSE Arr(SetItem(current.v, idx, DeleteRecurse(current.v[idx + 1], path, index + 1)))
            ELSE current

\* a delete that clears the document whatever the path
DeleteRoot(doc, path) == Null

\* delete_value_at_path
DeleteValueAtPath(doc, path) ==
    IF path = <<>> THEN Null ELSE DeleteRecurse(doc, path, 1)

\* insert_value_at_path::recurse
RECURSIVE InsertRecurse(_, _, _, _)
InsertRecurse(current, path, index, value) ==
    LET key == path[index]
        is_last == index = Len(path)
        idx == IndexOf(key)
    IN IF current.t = "arr" /\ key.t = "num" /\ idx >= 0 THEN
           IF is_last THEN Arr(VecInsert(current.v, MinInt({idx, Len(current.v)}), value))
           ELSE IF idx < Len(current.v) THEN
               Arr(SetItem(current.v, idx, InsertRecurse(current.v[idx + 1], path, index + 1, value)))
           ELSE current
       ELSE IF current.t = "obj" /\ key.t = "str" THEN
           IF is_last THEN Obj(MapInsert(current.v, key.v, value))
           ELSE IF key.v \in DOMAIN current.v THEN
               Obj(MapInsert(current.v, key.v,
                   InsertRecurse(current.v[key.v], path, index + 1, value)))
           ELSE current
       ELSE current

\* insert_value_at_path
InsertValueAtPath(doc, path, value) ==
    IF path = <<>> THEN value ELSE InsertRecurse(doc, path, 1, value)

\* apply_single_operation
ApplySingleOperation(doc, op) ==
    LET op_type == IF HasKey(op, "type") /\ op.v["type"].t = "str" THEN op.v["type"].v ELSE ""
        path == IF HasKey(op, "path") /\ op.v["path"].t = "arr" THEN op.v["path"].v ELSE <<>>
    IN IF op_type = "set" THEN
           (IF HasKey(op, "value") THEN SetValueAtPath(doc, path, op.v["value"]) ELSE doc)
       ELSE IF op_type = "delete" THEN DeleteValueAtPath(doc, path)
       ELSE IF op_type = "insert" THEN
           (IF HasKey(op, "value") THEN InsertValueAtPath(doc, path, op.v["value"]) ELSE doc)
       ELSE doc

\* for op in sorted_ops { apply_single_operation(document, op) }
RECURSIVE ApplyEach(_, _, _)
ApplyEach(doc, ops, i) ==
    IF i > Len(ops) THEN doc
    ELSE ApplyEach(ApplySingleOperation(doc, ops[i]), ops, i + 1)

\* apply_operational_operations
ApplyOperationalOperations(doc, operations) ==
    ApplyEach(doc, SortByTimestamp(operations), 1)

\* patch_operational
PatchOperationalDoc(doc, patch_val) ==
    IF HasKey(patch_val, "operations") /\ patch_val.v["operations"].t = "arr"
    THEN ApplyOperationalOperations(doc, patch_val.v["operations"].v)
    ELSE doc

\* diff.get("operations").and_then(|v| v.as_array()), empty when absent
OperationsOf(d) ==
    IF HasKey(d, "operations") /\ d.v["operations"].t = "arr" THEN d.v["operations"].v ELSE <<>>

\* the string entries of metadata.actors of a diff
ActorsOf(d) ==
    IF HasKey(d, "metadata") /\ HasKey(d.v["metadata"], "actors")
       /\ d.v["metadata"].v["actors"].t = "arr"
    THEN SelectSeq(d.v["metadata"].v["actors"].v, LAMBDA a : a.t = "str")
    ELSE <<>>

\* the loops of merge_operational_diffs: [all_operations, all_actors]
RECURSIVE PushActors(_, _, _)
PushActors(all_actors, actors, i) ==
    IF i > Len(actors) THEN all_actors
    ELSE PushActors(IF Contains(all_actors, actors[i]) THEN all_actors
                    ELSE Append(all_actors, actors[i]), actors, i + 1)

RECURSIVE CollectDiffs(_, _, _)
CollectDiffs(list, i, acc) ==
    IF i > Len(list) THEN acc
    ELSE CollectDiffs(list, i + 1,
            [all_operations |-> acc.all_operations \o OperationsOf(list[i]),
             all_actors |-> PushActors(acc.all_actors, ActorsOf(list[i]), 1)])

\* merge_operational_diffs
MergeOperationalDiffs(list) ==
    LET acc == CollectDiffs(list, 1, [all_operations |-> <<>>, all_actors |-> <<>>])
    IN Obj([f \in {"operations", "metadata"} |->
        IF f = "operations" THEN Arr(SortByTimestamp(acc.all_operations))
        ELSE Obj([g \in {"actors", "conflict_resolution"} |->
                IF g = "actors" THEN Arr(acc.all_actors) ELSE Str("last_write_wins")])])

---------------------------------------------------------------------------
(* JSON-LD expansion, as the batch entry points run it on every item *)

\* default_context(): the prefix table and the vocabulary; no language, no
\* term definitions
DefaultPrefixes ==
    [p \in {"rdf", "rdfs", "xsd", "schema"} |->
        IF p = "rdf" THEN "http://www.w3.org/1999/02/22-rdf-syntax-ns#"
        ELSE IF p = "rdfs" THEN "http://www.w3.org/2000/01/rdf-schema#"
        ELSE IF p = "xsd" THEN "http://www.w3.org/2001/XMLSchema#"
        ELSE "http://schema.org/"]

DefaultVocab == "http://example.org/"

\* expand_property_iri with the default context
ExpandPropertyIri(property) ==
    IF StartsWith(property, "http://") \/ StartsWith(property, "https://") THEN property
    ELSE IF property \in DOMAIN DefaultPrefixes THEN DefaultPrefixes[property]
    ELSE IF FindChar(property, ":", 1) > 0 THEN
        LET at == FindChar(property, ":", 1)
            prefix == SubSeq(property, 1, at - 1)
            local == SubSeq(property, at + 1, Len(property))
        IN IF prefix \in DOMAIN DefaultPrefixes THEN DefaultPrefixes[prefix] \o local
           ELSE property
    ELSE DefaultVocab \o property

\* expand_iri with the default context: the same resolution, as a Value
ExpandIri(s) == Str(ExpandPropertyIri(s))

\* expand_type_value
ExpandTypeValue(type_val) ==
    IF type_val.t = "str" THEN ExpandIri(type_val.v)
    ELSE IF type_val.t = "arr" THEN
        Arr([i \in 1..Len(type_val.v) |->
            IF type_val.v[i].t = "str" THEN ExpandIri(type_val.v[i].v) ELSE type_val.v[i]])
    ELSE type_val

UpperCase == "ABCDEFGHIJKLMNOPQRSTUVWXYZ"

LowerCase == "abcdefghijklmnopqrstuvwxyz"

\* str::to_lowercase on ASCII text
RECURSIVE ToLowercase(_)
ToLowercase(s) ==
    IF s = "" THEN ""
    ELSE LET c == CharAt(s, 1)
             at == FindChar(UpperCase, c, 1)
         IN (IF at > 0 THEN CharAt(LowerCase, at) ELSE c) \o ToLowercase(SubSeq(s, 2, Len(s)))

\* expand_value_object
ExpandValueObject(obj) ==
    LET has_str(k) == k \in DOMAIN obj /\ obj[k].t = "str"
        kept == {k \in {"@value", "@type", "@language", "@direction", "@index"} :
                    \/ k = "@value" /\ k \in DOMAIN obj
                    \/ k = "@type" /\ has_str(k)
                    \/ k = "@language" /\ has_str(k) /\ obj[k].v # ""
                    \/ k = "@direction" /\ has_str(k) /\ obj[k].v \in {"ltr", "rtl"}
                    \/ k = "@index" /\ has_str(k)}
    IN Obj([k \in kept |->
            IF k = "@type" THEN ExpandIri(obj[k].v)
            ELSE IF k = "@language" THEN Str(ToLowercase(obj[k].v))
            ELSE obj[k]])

\* json!({"@value": value, "@type": type_iri})
TypedValue(value, type_iri) ==
    Obj([k \in {"@value", "@type"} |-> IF k = "@value" THEN value ELSE Str(type_iri)])

\* json!({"@value": s})
PlainValue(value) == Obj([k \in {"@value"} |-> value])

\* expand_value with the default context; active_property is <<>> for None,
\* <<p>> for Some(p)
RECURSIVE ExpandValue(_, _)
RECURSIVE ExpandArrayFrom(_, _, _, _)
RECURSIVE ExpandPropertiesFrom(_, _, _, _, _)
RECURSIVE ExpandReverseFrom(_, _, _, _)

\* the loop of the Array arm: null results dropped, array results spliced in
ExpandArrayFrom(arr, i, active_property, expanded_array) ==
    IF i > Len(arr) THEN expanded_array
    ELSE LET expanded_item == ExpandValue(arr[i], active_property)
         IN ExpandArrayFrom(arr, i + 1, active_property,
                IF expanded_item.t = "null" THEN expanded_array
                ELSE IF expanded_item.t = "arr" THEN expanded_array \o expanded_item.v
                ELSE Append(expanded_array, expanded_item))

\* the loop over the entries of @reverse, in key order
ExpandReverseFrom(obj, keys, i, reverse_map) ==
    IF i > Len(keys) THEN reverse_map
    ELSE LET expanded_prop == ExpandPropertyIri(keys[i])
         IN ExpandReverseFrom(obj, keys, i + 1,
                MapInsert(reverse_map, expanded_prop,
                          ExpandValue(obj[keys[i]], <<expanded_prop>>)))

\* the loop "Process other properties" over what is left of obj, in key order
ExpandPropertiesFrom(obj, keys, i, active_property, result) ==
    IF i > Len(keys) THEN result
    ELSE LET key == keys[i]
             expanded_prop == ExpandPropertyIri(key)
             expanded_value == ExpandValue(obj[key], <<expanded_prop>>)
         IN ExpandPropertiesFrom(obj, keys, i + 1, active_property,
                IF StartsWith(key, "@") THEN MapInsert(result, key, obj[key])
                ELSE IF expanded_value.t # "null" THEN MapInsert(result, expanded_prop, expanded_value)
                ELSE result)

ExpandValue(element, active_property) ==
    IF element.t = "null" THEN Null
    ELSE IF element.t = "bool" THEN
        (IF active_property # <<>> THEN TypedValue(element, XSD_BOOLEAN) ELSE element)
    ELSE IF element.t = "num" THEN
        (IF active_property # <<>> THEN TypedValue(element, XSD_INTEGER) ELSE element)
    ELSE IF element.t = "str" THEN
        (IF active_property = <<>> THEN element
         ELSE IF active_property[1] \in {"@id", "@type"} THEN ExpandIri(element.v)
         ELSE PlainValue(element))
    ELSE IF element.t = "arr" THEN Arr(ExpandArrayFrom(element.v, 1, active_property, <<>>))
    ELSE LET obj == element.v
             has(k) == k \in DOMAIN obj
             with_type ==
                 IF has("@type") THEN MapInsert(EmptyMap, "@type", ExpandTypeValue(obj["@type"]))
                 ELSE EmptyMap
             with_id ==
                 IF has("@id") /\ obj["@id"].t = "str"
                 THEN MapInsert(with_type, "@id", ExpandIri(obj["@id"].v))
                 ELSE with_type
             with_graph ==
                 IF has("@graph")
                 THEN MapInsert(with_id, "@graph", ExpandValue(obj["@graph"], <<"@graph">>))
                 ELSE with_id
             with_list ==
                 IF ~has("@list") THEN with_graph
                 ELSE IF obj["@list"].t = "arr" THEN
                     MapInsert(with_graph, "@list",
                         Arr([i \in 1..Len(obj["@list"].v) |->
                                 ExpandValue(obj["@list"].v[i], active_property)]))
                 ELSE MapInsert(with_graph, "@list",
                         Arr(<<ExpandValue(obj["@list"], active_property)>>))
             with_reverse ==
                 IF has("@reverse") /\ obj["@reverse"].t = "obj"
                 THEN MapInsert(with_list, "@reverse",
                         Obj(ExpandReverseFrom(obj["@reverse"].v,
                                 SortedStrs(DOMAIN obj["@reverse"].v), 1, EmptyMap)))
                 ELSE with_list
             rest == DOMAIN obj \ {"@context", "@type", "@id", "@graph", "@list", "@set", "@reverse"}
             result == ExpandPropertiesFrom(obj, SortedStrs(rest), 1, active_property, with_reverse)
         IN IF has("@value") THEN ExpandValueObject(obj)
            ELSE IF has("@set") THEN ExpandValue(obj["@set"], active_property)
            ELSE IF active_property = <<>> THEN Arr(<<Obj(result)>>)
            ELSE Obj(result)

\* simple_expand
SimpleExpand(input) == ExpandValue(input, <<>>)

---------------------------------------------------------------------------
(* The process-wide LRU caches and the cached expansion *)

\* the capacities of PATTERN_CACHE and CONTEXT_CACHE (NonZeroUsize::new(500),
\* NonZeroUsize::new(100)) and the initial allocation of HASH_CACHE
\* (HashMap::with_capacity(1024)), scaled to the size of the model
PatternCacheCapacity == 2

ContextCacheCapacity == 2

HashCacheCapacity == 4

\* the place of the key in the cache, 0 when absent
LruIndex(cache, key) ==
    IF \E i \in 1..Len(cache) : cache[i].key = key
    THEN CHOOSE i \in 1..Len(cache) : cache[i].key = key
    ELSE 0

\* the cache without the entry at place i
LruWithout(cache, i) == SubSeq(cache, 1, i - 1) \o SubSeq(cache, i + 1, Len(cache))

\* LruCache::get on a key the cache holds: the entry becomes the most recently
\* used one
LruPromote(cache, key) ==
    Append(LruWithout(cache, LruIndex(cache, key)), cache[LruIndex(cache, key)])

\* LruCache::put: replaces the value of a key the cache holds, evicts the
\* least recently used entry of a full cache, and makes the entry the most
\* recently used one
LruPut(cache, key, value, cap) ==
    IF LruIndex(cache, key) > 0
    THEN Append(LruWithout(cache, LruIndex(cache, key)), [key |-> key, value |-> value])
    ELSE IF Len(cache) >= cap THEN Append(Tail(cache), [key |-> key, value |-> value])
    ELSE Append(cache, [key |-> key, value |-> value])

\* keys.join(",")
RECURSIVE JoinComma(_)
JoinComma(keys) ==
    IF keys = <<>> THEN ""
    ELSE IF Len(keys) = 1 THEN keys[1]
    ELSE keys[1] \o "," \o JoinComma(Tail(keys))

\* generate_json_ld_cache_key
GenerateJsonLdCacheKey(input) ==
    IF input.t = "obj" THEN
        LET context_sig == IF "@context" \in DOMAIN input.v THEN "ctx" ELSE ""
            type_sig == IF "@type" \in DOMAIN input.v THEN "typ" ELSE ""
            keys == SortedStrs({k \in DOMAIN input.v : ~StartsWith(k, "@")})
        IN "obj:" \o context_sig \o ":" \o type_sig \o ":" \o JoinComma(keys)
    ELSE IF input.t = "arr" THEN "arr:" \o ToString(Len(input.v))
    ELSE IF input.t = "str" /\ StartsWith(input.v, "http") THEN "iri:" \o ToString(Len(input.v))
    ELSE "val"

\* expand_with_cache on the PATTERN_CACHE given: [result, cache]
ExpandWithCache(input, cache) ==
    LET cache_key == GenerateJsonLdCacheKey(input)
    IN IF LruIndex(cache, cache_key) > 0
       THEN [result |-> cache[LruIndex(cache, cache_key)].value,
             cache |-> LruPromote(cache, cache_key)]
       ELSE [result |-> SimpleExpand(input),
             cache |-> LruPut(cache, cache_key, SimpleExpand(input), PatternCacheCapacity)]

---------------------------------------------------------------------------
(* The structural NIFs on one scheduler thread *)

MaxCalls == 2

RECURSIVE Repeat(_, _)
Repeat(c, n) == IF n = 0 THEN "" ELSE c \o Repeat(c, n - 1)

\* strings around the default text_diff_threshold
Long61 == Repeat("a", DEFAULT_TEXT_DIFF_THRESHOLD + 1)
Long61b == Repeat("a", DEFAULT_TEXT_DIFF_THRESHOLD - 10) \o "b" \o Repeat("a", 10)
Long62 == Repeat("a", DEFAULT_TEXT_DIFF_THRESHOLD - 10) \o "bc" \o Repeat("a", 10)
Len60 == Repeat("a", DEFAULT_TEXT_DIFF_THRESHOLD)

ShortStrings == {"a", "b", "c"}

TextDocs == {Str(Long61), Str(Long61b), Str(Long62), Str(Len60), Str("a"), Str("b")}

ScalarDocs == {Null, Bool(FALSE), Num(1), Num(2)}

\* objects over the keys a, b with scalar values
FlatObjects ==
    {Obj(m) : m \in UNION {[K -> {Num(1), Num(2)}] : K \in SUBSET {"a", "b"}}}
        \cup {Obj([k \in {"a"} |-> Null]), Obj([k \in {"a"} |-> Bool(FALSE)])}

Permutations3 ==
    {p \in ShortStrings \X ShortStrings \X ShortStrings :
        p[1] # p[2] /\ p[1] # p[3] /\ p[2] # p[3]}

ArrayDocs ==
    {Arr([i \in 1..3 |-> Str(p[i])]) : p \in Permutations3}
        \cup {Arr(<<>>),
              Arr(<<Str("a"), Str("b")>>), Arr(<<Str("b"), Str("a")>>),
              Arr(<<Arr(<<Num(1)>>), Num(7)>>), Arr(<<Num(8), Arr(<<Num(2)>>)>>),
              Arr(<<Null>>), Arr(<<Bool(FALSE)>>), Arr(<<Str("b")>>)}

NestedDocs ==
    {Obj([k \in {"a"} |-> Arr(<<Num(1), Num(2)>>)]),
     Obj([k \in {"a"} |-> Arr(<<Num(2), Num(1)>>)]),
     Obj([k \in {"a"} |-> Obj([j \in {"b"} |-> Num(1)])]),
     Obj([k \in {"a"} |-> Obj([j \in {"b"} |-> Str(Long61)])]),
     Obj([k \in {"a"} |-> Obj([j \in {"b"} |-> Str(Long61b)])])}

StructDocs == TextDocs \cup ScalarDocs \cup FlatObjects \cup ArrayDocs \cup NestedDocs

\* the option lists a caller passes to diff_structural
DiffOptLists ==
    {<<>>, <<(<<"include_moves", "false">>)>>, <<(<<"text_diff", "false">>)>>}

None == [t |-> "none", v |-> 0]

Idle ==
    /\ pc = "idle"
    /\ old_doc = None /\ new_doc = None /\ opts = <<>> /\ diff = None
    /\ document = None /\ patch = None /\ patched = None
    /\ alloc = <<>>
    /\ diffs = <<>> /\ merged = None
    /\ parsed = None
    /\ items = <<>> /\ results = <<>> /\ finished = <<>>
    /\ json_val = None /\ expanded = None

Init ==
    /\ HASH_CACHE = EmptyMap
    /\ PATTERN_CACHE = <<>>
    /\ CONTEXT_CACHE = <<>>
    /\ ncalls = 0
    /\ Idle

\* diff_structural(old_doc, new_doc, opts)
DiffStructural ==
    /\ pc = "idle"
    /\ ncalls < MaxCalls
    /\ \E o \in StructDocs, n \in StructDocs, ol \in DiffOptLists :
        LET r == ComputeStructuralDiff(o, n, ParseDiffOptions(ol), HASH_CACHE)
        IN /\ old_doc' = o
           /\ new_doc' = n
           /\ opts' = ol
           /\ diff' = r.d
           /\ HASH_CACHE' = r.c
    /\ pc' = "diff_structural"
    /\ ncalls' = ncalls + 1
    /\ UNCHANGED <<document, patch, patched, alloc, diffs, merged, parsed,
                   items, results, finished,
                   PATTERN_CACHE, CONTEXT_CACHE, json_val, expanded>>

\* patch_structural(document, patch) with the delta diff_structural returned,
\* on the document it was computed from
PatchStructural ==
    /\ pc = "diff_structural"
    /\ document' = old_doc
    /\ patch' = diff
    /\ patched' = ApplyStructuralPatch(old_doc, diff)
    /\ pc' = "patch_structural"
    /\ UNCHANGED <<HASH_CACHE, ncalls, old_doc, new_doc, opts, diff, alloc, diffs, merged, parsed,
                   items, results, finished,
                   PATTERN_CACHE, CONTEXT_CACHE, json_val, expanded>>

\* the caller drops the results and the thread is free for the next call
Return ==
    /\ pc # "idle"
    /\ pc' = "idle"
    /\ old_doc' = None /\ new_doc' = None /\ opts' = <<>> /\ diff' = None
    /\ document' = None /\ patch' = None /\ patched' = None
    /\ alloc' = <<>>
    /\ diffs' = <<>> /\ merged' = None
    /\ parsed' = None
    /\ items' = <<>> /\ results' = <<>> /\ finished' = <<>>
    /\ json_val' = None /\ expanded' = None
    /\ UNCHANGED <<HASH_CACHE, ncalls, PATTERN_CACHE, CONTEXT_CACHE>>

Next == DiffStructural \/ PatchStructural \/ Return

Spec == Init /\ [][Next]_vars

---------------------------------------------------------------------------
(* The semantic NIFs *)

\* how many identifiers the uuid generator is asked for in one extraction
NumUuids == 2

\* the "_:h<uuid>" identifiers; only their order matters to the code
UuidPool == {"_:h" \o ToString(i) : i \in 1..NumUuids}

RECURSIVE InjectiveSeqs(_, _)
InjectiveSeqs(S, n) ==
    IF n = 0 THEN {<<>>}
    ELSE UNION {{<<x>> \o q : q \in InjectiveSeqs(S \ {x}, n - 1)} : x \in S}

\* what Uuid::new_v4 may hand out, in call order, during one extraction
FreshIds == InjectiveSeqs(UuidPool, NumUuids)

NodeX == "http://example.org/x"
SchemaName == "http://schema.org/name"

NameContext == Obj([k \in {"name"} |-> Str(SchemaName)])
BaseContext ==
    Obj([k \in {"name", "@base"} |-> IF k = "name" THEN Str("http://xmlns.com/foaf/0.1/name")
                                     ELSE Str("http://b.example/")])

SemDocs ==
    {Obj([k \in {"@id", "name"} |-> IF k = "@id" THEN Str(NodeX) ELSE Str("n")]),
     Obj([k \in {"@id", "name"} |-> IF k = "@id" THEN Str(NodeX) ELSE Str("m")]),
     Obj([k \in {"name"} |-> Str("n")]),
     Obj([k \in {"@context", "@id", "name"} |->
         IF k = "@context" THEN NameContext ELSE IF k = "@id" THEN Str(NodeX) ELSE Str("n")]),
     Obj([k \in {"@context", "name"} |-> IF k = "@context" THEN NameContext ELSE Str("n")]),
     Obj([k \in {"@context", "@id", "name"} |->
         IF k = "@context" THEN BaseContext ELSE IF k = "@id" THEN Str(NodeX) ELSE Str("n")]),
     Obj([k \in {"@id", "p", "q"} |->
         IF k = "@id" THEN Str(NodeX)
         ELSE IF k = "p" THEN Obj([j \in {"a"} |-> Num(1)])
         ELSE Obj([j \in {"b"} |-> Num(2)])]),
     Obj([k \in {"@id", "p"} |-> IF k = "@id" THEN Str(NodeX) ELSE Arr(<<Num(1), Num(2)>>)]),
     Obj([k \in {"@id", "p"} |->
         IF k = "@id" THEN Str(NodeX) ELSE Obj([j \in {"@set"} |-> Arr(<<Num(1), Num(2)>>)])]),
     Obj([k \in {"@id", "@type", "name"} |->
         IF k = "@id" THEN Str(NodeX) ELSE IF k = "@type" THEN Str("Person") ELSE Str("n")]),
     Obj([k \in {"@id", "@type"} |->
         IF k = "@id" THEN Str(NodeX) ELSE Arr(<<Str("Person"), Str("Agent")>>)]),
     Obj([k \in {"@id", "name", "flag"} |->
         IF k = "@id" THEN Str(NodeX) ELSE IF k = "name" THEN Arr(<<Str("n"), Str("m")>>)
         ELSE Bool(TRUE)])}

\* the option lists a caller passes to diff_semantic
SemanticOptLists == {<<>>, <<(<<"context_aware", "false">>)>>}

\* diff_semantic(old_doc, new_doc, opts)
DiffSemantic ==
    /\ pc = "idle"
    /\ \E o \in SemDocs, n \in SemDocs, ol \in SemanticOptLists,
          fresh_old \in FreshIds, fresh_new \in FreshIds :
           /\ old_doc' = o
           /\ new_doc' = n
           /\ opts' = ol
           /\ alloc' = <<fresh_old, fresh_new>>
           /\ diff' = ComputeSemanticDiff(o, n, ParseSemanticOptions(ol), fresh_old, fresh_new)
    /\ pc' = "diff_semantic"
    /\ UNCHANGED <<HASH_CACHE, ncalls, document, patch, patched, diffs, merged, parsed,
                   items, results, finished,
                   PATTERN_CACHE, CONTEXT_CACHE, json_val, expanded>>

\* patch_semantic(document, patch) with the diff diff_semantic returned, on
\* the document it was computed from
PatchSemantic ==
    /\ pc = "diff_semantic"
    /\ document' = old_doc
    /\ patch' = diff
    /\ patched' = PatchSemanticDoc(old_doc, diff)
    /\ pc' = "patch_semantic"
    /\ UNCHANGED <<HASH_CACHE, ncalls, old_doc, new_doc, opts, diff, alloc, diffs, merged, parsed,
                   items, results, finished,
                   PATTERN_CACHE, CONTEXT_CACHE, json_val, expanded>>

NextSemantic == DiffSemantic \/ PatchSemantic \/ Return

SpecSemantic == Init /\ [][NextSemantic]_vars

---------------------------------------------------------------------------
(* The operational NIFs *)

Actors == {"alice", "bob"}

\* what generate_actor_id may return
GeneratedActors == {"actor_1", "actor_2"}

\* base timestamps, from the "timestamp" option or from the clock
Timestamps == {1, 2, U64Max}

OpDocs ==
    {Obj(EmptyMap),
     Obj([k \in {"a"} |-> Num(1)]),
     Obj([k \in {"a"} |-> Num(2)]),
     Obj([k \in {"a", "b"} |-> Num(1)]),
     Obj([k \in {"a"} |-> Arr(<<Num(1)>>)]),
     Obj([k \in {"a"} |-> Arr(<<Num(2)>>)]),
     Obj([k \in {"a"} |-> Arr(<<Num(1), Num(2)>>)]),
     Obj([k \in {"a"} |-> Obj([j \in {"b"} |-> Num(1)])]),
     Obj([k \in {"a"} |-> Obj([j \in {"b"} |-> Num(2)])]),
     Num(1)}

\* the option lists a caller passes to diff_operational
OperationalOptLists ==
    {<<>>}
    \cup {<<(<<"actor_id", a>>), (<<"timestamp", ToString(ts)>>)>> : a \in Actors, ts \in Timestamps}
    \cup {<<(<<"conflict_resolution", "merge">>)>>}

\* diff_operational(old_doc, new_doc, opts)
DiffOperational ==
    /\ pc = "idle"
    /\ \E o \in OpDocs, n \in OpDocs, ol \in OperationalOptLists,
          actor_id \in GeneratedActors, now \in Timestamps :
           /\ old_doc' = o
           /\ new_doc' = n
           /\ opts' = ol
           /\ alloc' = <<actor_id, now>>
           /\ diff' = ComputeOperationalDiff(o, n, ParseOperationalOptions(ol, actor_id, now))
    /\ pc' = "diff_operational"
    /\ UNCHANGED <<HASH_CACHE, ncalls, document, patch, patched, diffs, merged, parsed,
                   items, results, finished,
                   PATTERN_CACHE, CONTEXT_CACHE, json_val, expanded>>

\* a log of one operation on element 0 of the array under "a", its index
\* written as a number
IndexedLog(type, a, ts) ==
    Obj([f \in {"operations", "metadata"} |->
        IF f = "operations" THEN
            Arr(<<[Operation(type, <<"a">>, Num(9), ts, a) EXCEPT
                      !.v["path"] = Arr(<<Str("a"), Num(0)>>)]>>)
        ELSE Obj([g \in {"actors"} |-> Arr(<<Str(a)>>)])])

\* the logs two actors hand to merge_diffs_operational for one base document:
\* what diff_operational returns for it, and one-operation logs that address
\* an array element
LogsOver(base) ==
    {ComputeOperationalDiff(base, n, DefaultOperationalOptions(a, ts)) :
        n \in OpDocs, a \in Actors, ts \in Timestamps}
    \cup {IndexedLog(type, a, ts) : type \in {"insert", "delete", "set"}, a \in Actors, ts \in Timestamps}

\* merge_diffs_operational(diffs) on two logs over one base document, which
\* the caller keeps in document for the replay
MergeDiffsOperational ==
    /\ pc = "idle"
    /\ \E base \in OpDocs :
        \E log_a \in LogsOver(base), log_b \in LogsOver(base) :
           /\ document' = base
           /\ diffs' = <<log_a, log_b>>
           /\ merged' = MergeOperationalDiffs(<<log_a, log_b>>)
    /\ pc' = "merge_diffs_operational"
    /\ UNCHANGED <<HASH_CACHE, ncalls, old_doc, new_doc, opts, diff, patch, patched, alloc, parsed,
                   items, results, finished,
                   PATTERN_CACHE, CONTEXT_CACHE, json_val, expanded>>

\* patch_operational(document, patch): the log diff_operational returned on
\* the document it was computed from, or the merged log on the base document,
\* or the operations of the two logs put in one list by the caller, unsorted
PatchOperational ==
    /\ \/ /\ pc = "diff_operational"
          /\ document' = old_doc
          /\ patch' = diff
          /\ patched' = PatchOperationalDoc(old_doc, diff)
       \/ /\ pc = "merge_diffs_operational"
          /\ document' = document
          /\ patch' = merged
          /\ patched' = PatchOperationalDoc(document, merged)
       \/ /\ pc = "merge_diffs_operational"
          /\ document' = document
          /\ patch' = Obj([f \in {"operations"} |->
                            Arr(OperationsOf(diffs[1]) \o OperationsOf(diffs[2]))])
          /\ patched' = PatchOperationalDoc(document, patch')
    /\ pc' = "patch_operational"
    /\ UNCHANGED <<HASH_CACHE, ncalls, old_doc, new_doc, opts, diff, alloc, diffs, merged, parsed,
                   items, results, finished,
                   PATTERN_CACHE, CONTEXT_CACHE, json_val, expanded>>

NextOperational == DiffOperational \/ MergeDiffsOperational \/ PatchOperational \/ Return

SpecOperational == Init /\ [][NextOperational]_vars

---------------------------------------------------------------------------
(* The option parsers, the first step of every diff NIF *)

MaxOpts == 2

\* the keys a caller may pass to each parser: the ones it recognises and one
\* no parser knows
DiffOptionKeys == {"include_moves", "array_diff", "text_diff", "text_diff_threshold", "colour"}

OperationalOptionKeys == {"actor_id", "timestamp", "conflict_resolution", "colour"}

SemanticOptionKeys == {"normalize", "context_aware", "blank_node_strategy", "colour"}

\* the values a caller may pass: well formed for some key, or for none
OptionValues == {"true", "yes", "simple", "merge", "7", "x"}

\* the option lists of at most MaxOpts (key, value) pairs
OptionLists(keys) ==
    UNION {[1..n -> keys \X OptionValues] : n \in 0..MaxOpts}

\* parse_diff_options(opts) at the head of diff_structural
ParseDiffOptionsStep ==
    /\ pc = "idle"
    /\ \E ol \in OptionLists(DiffOptionKeys) :
        /\ opts' = ol
        /\ parsed' = ParseDiffOptions(ol)
    /\ pc' = "parse_diff_options"
    /\ UNCHANGED <<HASH_CACHE, ncalls, old_doc, new_doc, diff, document, patch, patched, alloc,
                   diffs, merged,
                   items, results, finished,
                   PATTERN_CACHE, CONTEXT_CACHE, json_val, expanded>>

\* parse_operational_options(opts) at the head of diff_operational
ParseOperationalOptionsStep ==
    /\ pc = "idle"
    /\ \E ol \in OptionLists(OperationalOptionKeys), actor_id \in GeneratedActors, now \in Timestamps :
        /\ opts' = ol
        /\ alloc' = <<actor_id, now>>
        /\ parsed' = ParseOperationalOptions(ol, actor_id, now)
    /\ pc' = "parse_operational_options"
    /\ UNCHANGED <<HASH_CACHE, ncalls, old_doc, new_doc, diff, document, patch, patched,
                   diffs, merged,
                   items, results, finished,
                   PATTERN_CACHE, CONTEXT_CACHE, json_val, expanded>>

\* parse_semantic_options(opts) at the head of diff_semantic
ParseSemanticOptionsStep ==
    /\ pc = "idle"
    /\ \E ol \in OptionLists(SemanticOptionKeys) :
        /\ opts' = ol
        /\ parsed' = ParseSemanticOptions(ol)
    /\ pc' = "parse_semantic_options"
    /\ UNCHANGED <<HASH_CACHE, ncalls, old_doc, new_doc, diff, document, patch, patched, alloc,
                   diffs, merged,
                   items, results, finished,
                   PATTERN_CACHE, CONTEXT_CACHE, json_val, expanded>>

NextOptions ==
    ParseDiffOptionsStep \/ ParseOperationalOptionsStep \/ ParseSemanticOptionsStep \/ Return

SpecOptions == Init /\ [][NextOptions]_vars

---------------------------------------------------------------------------
(* The batch NIFs: rayon workers map the items in any order *)

MaxBatch == 2

\* the documents whose texts callers send
JsonDocs ==
    {Obj([k \in {"name"} |-> Str("x")]),
     Obj([k \in {"@id", "@type"} |-> IF k = "@id" THEN Str("schema:a") ELSE Str("Person")]),
     Arr(<<Null, Arr(<<Num(2)>>), Bool(TRUE)>>),
     Obj([k \in {"label"} |->
            Obj([j \in {"@value", "@language"} |-> IF j = "@value" THEN Str("x") ELSE Str("EN")])])}

\* texts that are not JSON
InvalidTexts == {"{oops"}

BatchTexts == {ToJsonString(d) : d \in JsonDocs} \cup InvalidTexts

\* serde_json::from_str::<Value> on a text of BatchTexts: the document whose
\* text it is, None for an Err
FromStr(text) ==
    IF \E d \in JsonDocs : ToJsonString(d) = text
    THEN CHOOSE d \in JsonDocs : ToJsonString(d) = text
    ELSE None

\* the closure batch_expand maps over documents
ExpandItem(doc_str) ==
    IF FromStr(doc_str) # None THEN ToJsonString(SimpleExpand(FromStr(doc_str)))
    ELSE "{\"error\": \"Invalid JSON\"}"

\* the closure batch_process maps over operations
ProcessItem(op_type, args) ==
    IF op_type \in {"expand", "expand_binary"} THEN
        (IF FromStr(args) # None THEN ToJsonString(SimpleExpand(FromStr(args)))
         ELSE "{\"error\": \"Invalid input\"}")
    ELSE "{\"error\": \"Unknown operation\"}"

\* a collect that appends the results as the workers complete
CollectAsCompleted(slots, i, r) ==
    [slots EXCEPT ![CHOOSE k \in 1..Len(slots) :
                        slots[k] = "" /\ \A j \in 1..(k - 1) : slots[j] # ""] = r]

\* collect() of an indexed parallel iterator: the result of item i goes to
\* slot i of the vector
CollectInto(slots, i, r) == [slots EXCEPT ![i] = r]

BatchLists(S) == UNION {[1..n -> S] : n \in 0..MaxBatch}

OpTypes == {"expand", "expand_binary", "compact"}

\* batch_expand(documents): the call starts, no item mapped yet
BatchExpand ==
    /\ pc = "idle"
    /\ \E documents \in BatchLists(BatchTexts) :
        /\ items' = documents
        /\ results' = [i \in 1..Len(documents) |-> ""]
    /\ finished' = <<>>
    /\ pc' = "batch_expand"
    /\ UNCHANGED <<HASH_CACHE, ncalls, old_doc, new_doc, opts, diff, document, patch, patched,
                   alloc, diffs, merged, parsed,
                   PATTERN_CACHE, CONTEXT_CACHE, json_val, expanded>>

\* batch_process(operations): the call starts, no item mapped yet
BatchProcess ==
    /\ pc = "idle"
    /\ \E operations \in BatchLists(OpTypes \X BatchTexts) :
        /\ items' = operations
        /\ results' = [i \in 1..Len(operations) |-> ""]
    /\ finished' = <<>>
    /\ pc' = "batch_process"
    /\ UNCHANGED <<HASH_CACHE, ncalls, old_doc, new_doc, opts, diff, document, patch, patched,
                   alloc, diffs, merged, parsed,
                   PATTERN_CACHE, CONTEXT_CACHE, json_val, expanded>>

\* a worker maps one item that no worker has taken yet
MapItem ==
    /\ pc \in {"batch_expand", "batch_process"}
    /\ \E i \in 1..Len(items) :
        /\ \A k \in 1..Len(finished) : finished[k] # i
        /\ results' = CollectInto(results, i,
                IF pc = "batch_expand" THEN ExpandItem(items[i])
                ELSE ProcessItem(items[i][1], items[i][2]))
        /\ finished' = Append(finished, i)
    /\ UNCHANGED <<HASH_CACHE, pc, ncalls, old_doc, new_doc, opts, diff, document, patch, patched,
                   alloc, diffs, merged, parsed, items,
                   PATTERN_CACHE, CONTEXT_CACHE, json_val, expanded>>

\* every item is mapped: the NIF returns {:ok, results}
BatchReturn ==
    /\ pc \in {"batch_expand", "batch_process"}
    /\ Len(finished) = Len(items)
    /\ pc' = IF pc = "batch_expand" THEN "batch_expand_done" ELSE "batch_process_done"
    /\ UNCHANGED <<HASH_CACHE, ncalls, old_doc, new_doc, opts, diff, document, patch, patched,
                   alloc, diffs, merged, parsed, items, results, finished,
                   PATTERN_CACHE, CONTEXT_CACHE, json_val, expanded>>

NextBatch == BatchExpand \/ BatchProcess \/ MapItem \/ BatchReturn \/ Return

SpecBatch == Init /\ [][NextBatch]_vars

---------------------------------------------------------------------------
(* patch_structural on deltas a caller wrote, fitting the document or not *)

MaxEntries == 2

PatchDocs ==
    {Num(1),
     Str("ab"),
     Arr(<<>>),
     Arr(<<Num(1), Num(2)>>),
     Obj([k \in {"a"} |-> Num(1)]),
     Obj([k \in {"a", "b"} |-> IF k = "a" THEN Arr(<<Num(1), Num(2)>>) ELSE Num(2)]),
     Obj([k \in {"a"} |-> Obj([j \in {"b"} |-> Num(1)])])}

PatchKeys == {"a", "b", "_0", "_1", "_5", "0", "5"}

\* the entries of a delta: the leaf encodings and two nested deltas
PatchEntries ==
    {Addition(Num(9)), Change(Num(1), Num(9)), Deletion(Num(1)),
     MoveMarker(1), MoveMarker(5),
     Obj([k \in {"b"} |-> Change(Num(1), Num(9))]),
     Obj([k \in {"_0"} |-> Deletion(Num(1))])}

\* the object deltas of at most MaxEntries entries, and patches that are not
\* objects
PatchDeltas ==
    {Obj(f) : f \in UNION {[K -> PatchEntries] :
                    K \in {K \in SUBSET PatchKeys : Cardinality(K) <= MaxEntries}}}
    \cup {Addition(Num(9)), Deletion(Num(1)), MoveMarker(1), Num(3)}

\* patch_structural(document, patch) on any document and any delta
PatchStructuralAny ==
    /\ pc = "idle"
    /\ \E doc \in PatchDocs, delta \in PatchDeltas :
        /\ document' = doc
        /\ patch' = delta
        /\ patched' = ApplyStructuralPatch(doc, delta)
    /\ pc' = "patch_structural"
    /\ UNCHANGED <<HASH_CACHE, ncalls, old_doc, new_doc, opts, diff, alloc, diffs, merged, parsed,
                   items, results, finished,
                   PATTERN_CACHE, CONTEXT_CACHE, json_val, expanded>>

NextPatch == PatchStructuralAny \/ Return

SpecPatch == Init /\ [][NextPatch]_vars

---------------------------------------------------------------------------
(* Expansion through the pattern cache, and the context cache NIF *)

\* the documents expanded: those of the batch calls, and documents that differ
\* from one another in values only
ExpandInputs ==
    JsonDocs
        \cup {Obj([k \in {"name"} |-> Str("y")]),
              Arr(<<Num(1), Num(2), Num(3)>>),
              Num(1), Str("a")}

ContextKeys == {"k1", "k2", "k3"}

ContextTexts == {"{}", "{\"name\":\"http://schema.org/name\"}"}

\* expand_with_cache(input)
ExpandCached ==
    /\ pc = "idle"
    /\ \E doc \in ExpandInputs :
        LET r == ExpandWithCache(doc, PATTERN_CACHE)
        IN /\ json_val' = doc
           /\ expanded' = r.result
           /\ PATTERN_CACHE' = r.cache
    /\ pc' = "expand_with_cache"
    /\ UNCHANGED <<HASH_CACHE, ncalls, old_doc, new_doc, opts, diff, document, patch, patched,
                   alloc, diffs, merged, parsed, items, results, finished, CONTEXT_CACHE>>

\* cache_context(context, key)
CacheContext ==
    /\ pc = "idle"
    /\ \E text \in ContextTexts, k \in ContextKeys :
        CONTEXT_CACHE' = LruPut(CONTEXT_CACHE, k, text, ContextCacheCapacity)
    /\ pc' = "cache_context"
    /\ UNCHANGED <<HASH_CACHE, ncalls, old_doc, new_doc, opts, diff, document, patch, patched,
                   alloc, diffs, merged, parsed, items, results, finished, PATTERN_CACHE,
                   json_val, expanded>>

NextExpand == ExpandCached \/ CacheContext \/ Return

SpecExpand == Init /\ [][NextExpand]_vars

---------------------------------------------------------------------------
(* Properties of the structural engine *)

Diffed == pc = "diff_structural"

Patched == pc = "patch_structural"

IsScalar(val) == val.t \in {"null", "bool", "num"}

IsScalarObject(val) == val.t = "obj" /\ \A k \in DOMAIN val.v : IsScalar(val.v[k])

\* the moves of an array delta leave no entry unapplied: every source index is
\* inside the array when its move is taken, every destination inside it after
\* the removal
RECURSIVE MovesFit(_, _)
MovesFit(result, moves) ==
    IF DOMAIN moves = {} THEN TRUE
    ELSE LET to == MinInt(DOMAIN moves)
             from == moves[to]
             rest == [t \in (DOMAIN moves) \ {to} |-> moves[t]]
         IN /\ from < Len(result)
            /\ to <= Len(result) - 1
            /\ MovesFit(ApplyMoves(result, [t \in {to} |-> from]), rest)

RECURSIVE InsertsFit(_, _)
InsertsFit(result, inserts) ==
    IF Len(inserts) = 0 THEN TRUE
    ELSE LET lowest == MinInt({inserts[j][1] : j \in 1..Len(inserts)})
             first == MinInt({j \in 1..Len(inserts) : inserts[j][1] = lowest})
             rest == SubSeq(inserts, 1, first - 1) \o SubSeq(inserts, first + 1, Len(inserts))
         IN /\ lowest <= Len(result)
            /\ InsertsFit(ApplyInserts(result, <<inserts[first]>>), rest)

\* ShapeMismatch: applying delta p to doc takes one of the permissive fallbacks
\* of the patch (an entry skipped, clamped or set verbatim because its shape
\* does not fit its target)
RECURSIVE ShapeMismatch(_, _)
RECURSIVE ArrayShapeMismatch(_, _)

ArrayShapeMismatch(existing, delta_obj) ==
    LET after_deletes == ApplyDeletes(existing, DeltaDeletes(delta_obj))
        after_moves == ApplyMoves(after_deletes, DeltaMoves(delta_obj))
    IN \/ \E k \in DOMAIN delta_obj :
            \/ DeltaIndex(k) < 0
            \/ ~StartsWith(k, "_") /\ ~IsInsertKey(delta_obj, k)
            \/ StartsWith(k, "_") /\ IsMove(delta_obj[k]) /\ k \notin MoveKeys(delta_obj)
            \/ /\ StartsWith(k, "_") /\ DeltaIndex(k) >= 0
               /\ ~IsDeletion(delta_obj[k]) /\ ~IsMove(delta_obj[k])
               /\ ~IsInsertKey(delta_obj, k)
               /\ ~(delta_obj[k].t = "arr" /\ Len(delta_obj[k].v) = 2)
               /\ \/ DeltaIndex(k) >= Len(existing)
                  \/ ShapeMismatch(existing[DeltaIndex(k) + 1], delta_obj[k])
       \/ \E idx \in DeltaDeletes(delta_obj) : idx >= Len(existing)
       \/ ~MovesFit(after_deletes, DeltaMoves(delta_obj))
       \/ \E k \in ChangeKeys(existing, delta_obj) : DeltaIndex(k) >= Len(after_moves)
       \/ ~InsertsFit(after_moves, DeltaInserts(delta_obj))

ShapeMismatch(doc, p) ==
    IF p.t = "obj" THEN
        IF doc.t = "obj" THEN
            \E key \in DOMAIN p.v :
                IF key \in DOMAIN doc.v /\ doc.v[key].t = "arr" /\ p.v[key].t = "obj"
                THEN ArrayShapeMismatch(doc.v[key].v, p.v[key].v)
                ELSE IF StartsWith(key, "_") THEN TRUE
                ELSE IF IsDeletion(p.v[key]) THEN key \notin DOMAIN doc.v
                ELSE IF p.v[key].t = "arr" /\ Len(p.v[key].v) \in {1, 2} THEN FALSE
                ELSE IF key \in DOMAIN doc.v THEN ShapeMismatch(doc.v[key], p.v[key])
                ELSE TRUE
        ELSE IF doc.t = "arr" THEN ArrayShapeMismatch(doc.v, p.v)
        ELSE DOMAIN p.v # {}
    ELSE IF p.t = "arr" THEN
        IF Len(p.v) = 3 /\ p.v[2] = Num(0) /\ p.v[3] = Num(2)
        THEN ~(doc.t = "str" /\ HasKey(p.v[1], "text_diff") /\ p.v[1].v["text_diff"].t = "arr")
        ELSE ~(Len(p.v) \in {1, 2} \/ IsDeletion(p))
    ELSE FALSE

\* C1: structural round-trip.  With default options, for every pair old, new
\* whose delta exercises no ShapeMismatch fallback when applied to old,
\* apply_structural_patch(old, compute_structural_diff(old, new)) equals new.
C1_RoundTrip ==
    (Patched /\ opts = <<>> /\ document = old_doc /\ patch = diff
        /\ ~ShapeMismatch(document, patch))
    => patched = new_doc

\* C2: cache transparency.  Whatever HASH_CACHE holds from the earlier calls on
\* the thread, diff_structural returns the delta it returns from an empty cache
\* and the delta it returns with the cache bypassed.
C2_CacheTransparent ==
    Diffed =>
        /\ diff = ComputeStructuralDiff(old_doc, new_doc, ParseDiffOptions(opts), EmptyMap).d
        /\ diff = ComputeStructuralDiff(old_doc, new_doc,
                      [ParseDiffOptions(opts) EXCEPT !.hash_cache = FALSE], EmptyMap).d

IsShortStringArray(val, threshold) ==
    /\ val.t = "arr"
    /\ \A i \in 1..Len(val.v) : val.v[i].t = "str" /\ Len(val.v[i].v) <= threshold
    /\ \A i, j \in 1..Len(val.v) : i # j => val.v[i] # val.v[j]

IsPermutationOf(new, old) ==
    /\ Len(new.v) = Len(old.v)
    /\ \A i \in 1..Len(old.v) : \E j \in 1..Len(new.v) : new.v[j] = old.v[i]

\* 0-based index of x in the array a
IndexIn(a, x) == CHOOSE i \in 0..(Len(a) - 1) : a[i + 1] = x

ChangedIndices(old, new) == {i \in 0..(Len(old) - 1) : old[i + 1] # new[i + 1]}

PermutationCase ==
    /\ Diffed
    /\ IsShortStringArray(old_doc, ParseDiffOptions(opts).text_diff_threshold)
    /\ IsShortStringArray(new_doc, ParseDiffOptions(opts).text_diff_threshold)
    /\ IsPermutationOf(new_doc, old_doc)

\* C5: move detection.  For new a permutation of an old array of pairwise
\* distinct short strings: with include_moves the delta holds exactly a move
\* marker ["", fromIndex, 3] under _<toIndex> for every element whose index
\* changed (no addition, no deletion); without include_moves it holds exactly
\* a change [old[i], new[i]] under _<i> for every index where the arrays differ.
C5_MoveDetection ==
    PermutationCase =>
        /\ diff.t = "obj"
        /\ DOMAIN diff.v = {"_" \o ToString(i) : i \in ChangedIndices(old_doc.v, new_doc.v)}
        /\ \A i \in ChangedIndices(old_doc.v, new_doc.v) :
            diff.v["_" \o ToString(i)] =
                IF ParseDiffOptions(opts).include_moves
                THEN Arr(<<Str(""), Num(IndexIn(old_doc.v, new_doc.v[i + 1])), Num(3)>>)
                ELSE Arr(<<old_doc.v[i + 1], new_doc.v[i + 1]>>)

C5_Witness ==
    /\ PermutationCase
    /\ old_doc = Arr(<<Str("a"), Str("b"), Str("c")>>)
    /\ new_doc = Arr(<<Str("c"), Str("a"), Str("b")>>)
    /\ ParseDiffOptions(opts).include_moves
    /\ Cardinality(DOMAIN diff.v) = 3

IsTextDiffWrapper(d) ==
    /\ d.t = "arr" /\ Len(d.v) = 3
    /\ HasKey(d.v[1], "text_diff") /\ d.v[2] = Num(0) /\ d.v[3] = Num(2)

\* C6: text-diff threshold.  For two unequal strings and text_diff enabled the
\* delta is the [{text_diff: ...}, 0, 2] wrapper exactly when both strings are
\* longer than text_diff_threshold, and the change [old, new] otherwise.
C6_TextDiffThreshold ==
    (Diffed /\ old_doc.t = "str" /\ new_doc.t = "str" /\ old_doc # new_doc
        /\ ParseDiffOptions(opts).text_diff)
    => IF /\ Len(old_doc.v) > ParseDiffOptions(opts).text_diff_threshold
          /\ Len(new_doc.v) > ParseDiffOptions(opts).text_diff_threshold
       THEN IsTextDiffWrapper(diff)
       ELSE diff = Arr(<<old_doc, new_doc>>)

\* C8: structural idempotence.  compute_structural_diff(doc, doc) is {} and
\* apply_structural_patch(doc, {}) equals doc, whatever the root's type.
C8_StructuralIdempotence ==
    /\ (Diffed /\ old_doc = new_doc) => diff = Obj(<<>>)
    /\ (Patched /\ old_doc = new_doc) => (patch = Obj(<<>>) /\ patched = document)

C8_Witness ==
    /\ Patched /\ old_doc = new_doc
    /\ old_doc = Arr(<<Arr(<<Num(1)>>), Num(7)>>)
    /\ patched = old_doc

\* the delta of two objects with scalar values, entry by entry
ScalarObjectDelta(o, n) ==
    [k \in {k \in (DOMAIN o) \cup (DOMAIN n) :
                k \notin DOMAIN o \/ k \notin DOMAIN n \/ o[k] # n[k]} |->
        IF k \notin DOMAIN o THEN Arr(<<n[k]>>)
        ELSE IF k \notin DOMAIN n THEN Arr(<<o[k], Num(0), Num(0)>>)
        ELSE Arr(<<o[k], n[k]>>)]

\* C10: object delta shape.  For two objects with scalar values the delta has
\* an entry for key k exactly when k is missing on one side or old[k] differs
\* from new[k]: [new[k]] for a key only in new, [old[k], 0, 0] for a key only
\* in old, [old[k], new[k]] for a changed scalar.
C10_ObjectDeltaShape ==
    (Diffed /\ IsScalarObject(old_doc) /\ IsScalarObject(new_doc))
    => diff = Obj(ScalarObjectDelta(old_doc.v, new_doc.v))

C10_Witness ==
    /\ Diffed
    /\ old_doc = Obj([k \in {"a", "b"} |-> Num(1)])
    /\ new_doc = Obj([k \in {"a"} |-> Num(2)])
    /\ diff = Obj([k \in {"a", "b"} |->
                  IF k = "a" THEN Arr(<<Num(1), Num(2)>>) ELSE Arr(<<Num(1), Num(0), Num(0)>>)])


PairwiseDistinct(a) == \A i, j \in 1..Len(a) : i # j => a[i] # a[j]

\* the delta of exactly the move markers _<to>: ["", from, 3] of the elements
\* whose index differs between old and its permutation new
MoveDelta(old, new) ==
    Obj([k \in {UKey(i) : i \in ChangedIndices(old, new)} |->
            MoveMarker(IndexIn(old, new[DeltaIndex(k) + 1]))])

\* the patch applied the move delta of a permutation to the old array
MoveDeltaApplied ==
    /\ Patched
    /\ document.t = "arr" /\ new_doc.t = "arr"
    /\ PairwiseDistinct(document.v)
    /\ IsPermutationOf(new_doc, document)
    /\ patch = MoveDelta(document.v, new_doc.v)

\* C16: move application. For an old array of pairwise distinct elements and a
\* permutation new of it, apply_array_delta on the delta of exactly the move
\* markers of the elements whose index changed yields new.
C16_MoveApplication ==
    MoveDeltaApplied =>
        /\ Arr(ApplyArrayDelta(document.v, patch.v)) = new_doc
        /\ patched = new_doc

\* the (old index, new index) pairs the first loop of
\* diff_arrays_with_moves_simd matches, entered with the given HASH_CACHE
MatchedBy(old_arr, new_arr, options, cache) ==
    LET old_hashes == ElementHashes(old_arr, options, cache)
        new_hashes == ElementHashes(new_arr, options, old_hashes.c)
    IN DetectMoves(old_hashes.hs, new_hashes.hs, 0, NothingProcessed).matched

\* C17: move soundness. In every diff_structural call on two arrays with
\* include_moves, an old index and a new index are matched only if the elements
\* there are deep-equal, and no old index and no new index is in two matches.
C17_MoveSoundness ==
    [][(pc' = "diff_structural" /\ old_doc'.t = "arr" /\ new_doc'.t = "arr"
            /\ ParseDiffOptions(opts').include_moves)
        => LET m == MatchedBy(old_doc'.v, new_doc'.v, ParseDiffOptions(opts'), HASH_CACHE)
           IN /\ \A p \in m : ValuesEqualSimd(old_doc'.v[p[1] + 1], new_doc'.v[p[2] + 1])
              /\ \A p, q \in m : (p[1] = q[1] \/ p[2] = q[2]) => p = q]_vars

\* the patch replayed the text-diff wrapper diff_text_simd returned for two
\* strings
TextDiffReplayed ==
    /\ Patched
    /\ document = old_doc /\ patch = diff
    /\ document.t = "str" /\ new_doc.t = "str"
    /\ IsTextDiffWrapper(patch)

\* C18: text-diff replay. For two strings old and new, apply_text_diff_ops on
\* old and the operations diff_text_simd(old, new) produced returns new, also
\* when an insert follows unchanged text.
C18_TextDiffReplay ==
    TextDiffReplayed =>
        /\ ApplyTextDiffOps(document.v, patch.v[1].v["text_diff"].v) = new_doc.v
        /\ patched = new_doc

\* the diff returned the empty delta
EmptyDeltaReturned == Diffed /\ diff = EmptyDelta

\* C19: empty delta only for equal documents. compute_structural_diff(old, new)
\* returns the empty delta {} only if old deep-equals new; whenever they differ
\* anywhere, nested arrays and values of different JSON types included, the
\* returned delta is non-empty.
C19_EmptyDeltaOnlyForEqual ==
    EmptyDeltaReturned => ValuesEqualSimd(old_doc, new_doc)

\* C20: no marker is overwritten. In every diff_structural call that reaches
\* diff_arrays_with_moves_simd, the move marker written for a matched pair
\* (old index i, new index j, i # j) is still under _<j> in the returned delta:
\* no later deletion, addition or change entry has replaced it.
C20_NoMarkerOverwritten ==
    [][(pc' = "diff_structural" /\ old_doc'.t = "arr" /\ new_doc'.t = "arr"
            /\ ~ValuesEqualSimd(old_doc', new_doc')
            /\ ParseDiffOptions(opts').include_moves)
        => \A p \in MatchedBy(old_doc'.v, new_doc'.v, ParseDiffOptions(opts'), HASH_CACHE) :
            p[1] # p[2] =>
                /\ UKey(p[2]) \in DOMAIN diff'.v
                /\ diff'.v[UKey(p[2])] = MoveMarker(p[1])]_vars

---------------------------------------------------------------------------
(* Semantic claims *)

DiffedSemantic == pc \in {"diff_semantic", "patch_semantic"}

AddedTriples == diff.v["added_triples"].v
RemovedTriples == diff.v["removed_triples"].v

\* C3: blank-node label stability. When diff_semantic is given the same
\* document twice, the two extractions yield the same labelled triples,
\* whatever identifiers the uuid generator handed out, and the diff reports
\* no added and no removed triple.
C3_BlankNodeStability ==
    (DiffedSemantic /\ old_doc = new_doc) =>
        /\ DocumentToTriplesFast(old_doc, alloc[1]) = DocumentToTriplesFast(new_doc, alloc[2])
        /\ AddedTriples = <<>>
        /\ RemovedTriples = <<>>

\* new is old with the array under one property written {"@set": array}
IsSetWrapping(old, new) ==
    /\ old.t = "obj" /\ new.t = "obj"
    /\ DOMAIN old.v = DOMAIN new.v
    /\ \E p \in DOMAIN old.v :
        /\ old.v[p].t = "arr"
        /\ new.v[p] = Obj([k \in {"@set"} |-> old.v[p]])
        /\ \A k \in DOMAIN old.v \ {p} : old.v[k] = new.v[k]

\* C7: semantic equivalence under @set wrapping. A document with a bare array
\* under a property and the same document with {"@set": array} there diff to
\* no added triple, no removed triple and semantic_equivalence = true.
C7_SetWrappingEquivalent ==
    (DiffedSemantic /\ IsSetWrapping(old_doc, new_doc)) =>
        /\ AddedTriples = <<>>
        /\ RemovedTriples = <<>>
        /\ diff.v["metadata"].v["semantic_equivalence"] = Bool(TRUE)

\* C9: semantic idempotence. For an object document, with or without
\* @context and with or without a root @id, applying diff_semantic(doc, doc)
\* to doc returns doc.
C9_SemanticIdempotence ==
    (pc = "patch_semantic" /\ old_doc = new_doc /\ document.t = "obj") =>
        patched = document

\* patch_semantic has returned
PatchedSemantic == pc = "patch_semantic"

\* the subject of the triple is the string @id of the document being patched
SubjectIsRoot(t) ==
    /\ HasKey(document, "@id") /\ document.v["@id"].t = "str"
    /\ HasKey(t, "subject") /\ t.v["subject"] = document.v["@id"]

\* the triples of the sequence on the root of the document being patched
RootTriples(triples) == SelectSeq(triples, SubjectIsRoot)

PatchTriples == patch.v["added_triples"].v \o patch.v["removed_triples"].v

\* the patch without the triples on other subjects than the root
RootTriplesPatch ==
    Obj([f \in DOMAIN patch.v |->
        IF f \in {"added_triples", "removed_triples"} THEN Arr(RootTriples(patch.v[f].v))
        ELSE patch.v[f]])

\* the patch without its context_changes
TriplesPatch == Obj([f \in DOMAIN patch.v \ {"context_changes"} |-> patch.v[f]])

\* the two documents agree on the key: both lack it or both hold one value
SameAt(a, b, key) ==
    /\ HasKey(a, key) <=> HasKey(b, key)
    /\ HasKey(a, key) => a.v[key] = b.v[key]

\* the keys a triple on the root may modify
KeysOfRootTriples ==
    {IF t.v["predicate"].v = RDF_TYPE THEN "@type" ELSE IriLocalName(t.v["predicate"].v) :
        t \in {PatchTriples[i] : i \in {j \in 1..Len(PatchTriples) :
                                            SubjectIsRoot(PatchTriples[j])}}}

\* C26: root-only semantic patch. In patch_semantic a triple whose subject is
\* not the document's root @id (every triple, when the document has no string
\* @id) changes no key of the document; the triples modify nothing but @type
\* and the properties of the triples on the root, and @context is modified by
\* the context_changes only.
C26_RootOnlyPatch ==
    PatchedSemantic =>
        LET by_triples == PatchSemanticDoc(document, TriplesPatch)
        IN /\ patched = PatchSemanticDoc(document, RootTriplesPatch)
           /\ RootTriples(PatchTriples) = <<>> => by_triples = document
           /\ \A key \in (DOMAIN document.v \cup DOMAIN by_triples.v) \ KeysOfRootTriples :
                SameAt(by_triples, document, key)
           /\ SameAt(by_triples, document, "@context")
           /\ \A key \in (DOMAIN by_triples.v \cup DOMAIN patched.v) \ {"@context"} :
                SameAt(patched, by_triples, key)

\* a patch with a triple on the root that changed the document and a triple
\* on another subject
C26_Witness ==
    /\ PatchedSemantic
    /\ RootTriples(PatchTriples) # <<>>
    /\ RootTriples(PatchTriples) # PatchTriples
    /\ PatchSemanticDoc(document, TriplesPatch) # document

\* diff_semantic has returned its report
ReportReturned == pc = "diff_semantic"

ModifiedNodes == diff.v["modified_nodes"].v

\* the subject and the predicate of a triple as group_changes_by_node_fast
\* reads them
SubjectOf(t) == IF HasKey(t, "subject") /\ t.v["subject"].t = "str" THEN t.v["subject"].v ELSE ""
PredicateOf(t) ==
    IF HasKey(t, "predicate") /\ t.v["predicate"].t = "str" THEN t.v["predicate"].v ELSE ""

ChangedTriples == AddedTriples \o RemovedTriples

Subjects == {SubjectOf(ChangedTriples[i]) : i \in 1..Len(ChangedTriples)}

\* the places of the triples of a (subject, predicate) bucket in a list
Bucket(triples, subj, pred) ==
    {i \in 1..Len(triples) : SubjectOf(triples[i]) = subj /\ PredicateOf(triples[i]) = pred}

\* the places of the entries of a property list that name the property
EntriesFor(props, pred) == {i \in 1..Len(props) : props[i].v["property"] = Str(pred)}

\* the properties a node entry names and the predicates of the node's triples
PredicatesAt(entry, subj) ==
    {PredicateOf(ChangedTriples[i]) :
        i \in {j \in 1..Len(ChangedTriples) : SubjectOf(ChangedTriples[j]) = subj}}
    \cup UNION {{entry.v[f].v[i].v["property"].v : i \in 1..Len(entry.v[f].v)} :
                    f \in {"added_properties", "removed_properties", "modified_properties"}}

\* the objects of the triples of all buckets, and Null for a missing one
ObjectsChanged ==
    {IF HasKey(ChangedTriples[i], "object") THEN ChangedTriples[i].v["object"] ELSE Null :
        i \in 1..Len(ChangedTriples)}

\* the entry accounts for every triple of the bucket exactly once
BucketAccounted(entry, subj, pred) ==
    LET adds == Bucket(AddedTriples, subj, pred)
        rems == Bucket(RemovedTriples, subj, pred)
        added_props == entry.v["added_properties"].v
        removed_props == entry.v["removed_properties"].v
        modified_props == entry.v["modified_properties"].v
        paired == adds # {} /\ rems # {}
    IN /\ Cardinality(EntriesFor(modified_props, pred)) = IF paired THEN 1 ELSE 0
       /\ ~paired => \/ EntriesFor(added_props, pred) = {}
                     \/ EntriesFor(removed_props, pred) = {}
       /\ \A o \in ObjectsChanged :
            /\ Cardinality({i \in adds : ObjectOf(AddedTriples[i]) = o})
                 = Cardinality({i \in EntriesFor(added_props, pred) :
                                    added_props[i].v["new_value"] = o})
                   + Cardinality({i \in EntriesFor(modified_props, pred) :
                                    modified_props[i].v["new_value"] = o})
            /\ Cardinality({i \in rems : ObjectOf(RemovedTriples[i]) = o})
                 = Cardinality({i \in EntriesFor(removed_props, pred) :
                                    removed_props[i].v["old_value"] = o})
                   + Cardinality({i \in EntriesFor(modified_props, pred) :
                                    modified_props[i].v["old_value"] = o})
       /\ Cardinality(adds) = Cardinality(EntriesFor(added_props, pred))
                                + Cardinality(EntriesFor(modified_props, pred))
       /\ Cardinality(rems) = Cardinality(EntriesFor(removed_props, pred))
                                + Cardinality(EntriesFor(modified_props, pred))

\* C27: change grouping. In the modified_nodes report there is exactly one
\* node entry per distinct subject, every added and every removed triple is
\* accounted for exactly once in the entry of its subject, and a (subject,
\* predicate) bucket yields a modified_properties entry exactly when it has an
\* added and a removed triple; otherwise its triples are in added_properties
\* only or in removed_properties only.
C27_ChangeGrouping ==
    ReportReturned =>
        /\ Len(ModifiedNodes) = Cardinality(Subjects)
        /\ \A subj \in Subjects :
              Cardinality({n \in 1..Len(ModifiedNodes) :
                              ModifiedNodes[n].v["node_id"] = Str(subj)}) = 1
        /\ \A n \in 1..Len(ModifiedNodes) :
              /\ ModifiedNodes[n].v["node_id"].t = "str"
              /\ ModifiedNodes[n].v["node_id"].v \in Subjects
              /\ \A pred \in PredicatesAt(ModifiedNodes[n], ModifiedNodes[n].v["node_id"].v) :
                    BucketAccounted(ModifiedNodes[n], ModifiedNodes[n].v["node_id"].v, pred)

\* a report over two subjects with a bucket of an added and a removed triple
\* and a bucket of removed triples only
C27_Witness ==
    /\ ReportReturned
    /\ Cardinality(Subjects) >= 2
    /\ \E i \in 1..Len(AddedTriples), j \in 1..Len(RemovedTriples) :
          /\ SubjectOf(AddedTriples[i]) = SubjectOf(RemovedTriples[j])
          /\ PredicateOf(AddedTriples[i]) = PredicateOf(RemovedTriples[j])
    /\ \E j \in 1..Len(RemovedTriples) :
          Bucket(AddedTriples, SubjectOf(RemovedTriples[j]), PredicateOf(RemovedTriples[j])) = {}

---------------------------------------------------------------------------
(* Operational claims *)

\* the merged log of diffs has been replayed on the base document
MergedReplayed == pc = "patch_operational" /\ merged # None

\* the actor ids of the two logs are disjoint and the timestamps of their
\* operations are pairwise distinct across both logs
LogsIndependent(log_a, log_b) ==
    LET ops == OperationsOf(log_a) \o OperationsOf(log_b)
    IN /\ \A i \in 1..Len(ActorsOf(log_a)) : ~Contains(ActorsOf(log_b), ActorsOf(log_a)[i])
       /\ \A i, j \in 1..Len(ops) : i # j => TimestampOf(ops[i]) # TimestampOf(ops[j])

\* the bijections of 1..n
Orders(n) == {f \in [1..n -> 1..n] : \A i, j \in 1..n : i # j => f[i] # f[j]}

\* C4: merge convergence. For two logs over one base document with disjoint
\* actors and pairwise distinct timestamps, replaying merge([A, B]) and
\* replaying merge([B, A]) give the same document, and so does replaying the
\* union of their operations given in any order.
C4_MergeConvergence ==
    (MergedReplayed /\ LogsIndependent(diffs[1], diffs[2])) =>
        LET union == OperationsOf(diffs[1]) \o OperationsOf(diffs[2])
        IN /\ patched = PatchOperationalDoc(document, MergeOperationalDiffs(<<diffs[2], diffs[1]>>))
           /\ \A f \in Orders(Len(union)) :
                 patched = ApplyOperationalOperations(document, [i \in 1..Len(union) |-> union[f[i]]])

\* two independent logs whose operations conflict: applying A's operations
\* then B's, as given, differs from applying B's then A's
C4_Witness ==
    /\ MergedReplayed
    /\ LogsIndependent(diffs[1], diffs[2])
    /\ ApplyEach(document, OperationsOf(diffs[1]) \o OperationsOf(diffs[2]), 1)
         # ApplyEach(document, OperationsOf(diffs[2]) \o OperationsOf(diffs[1]), 1)

\* a log has been replayed by patch_operational
Replayed == pc = "patch_operational"

\* the place of operation i in the order of timestamps, operations of one
\* timestamp in the order of the list
RankOf(ops, i) ==
    Cardinality({j \in 1..Len(ops) :
        \/ TimestampOf(ops[j]) < TimestampOf(ops[i])
        \/ TimestampOf(ops[j]) = TimestampOf(ops[i]) /\ j <= i})

StableOrder(ops) ==
    [k \in 1..Len(ops) |-> ops[CHOOSE i \in 1..Len(ops) : RankOf(ops, i) = k]]

\* the log with nothing but its operations
OperationsOnly(ops) == Obj([f \in {"operations"} |-> Arr(ops)])

\* C11: operational replay determinism. The document a replay returns is the
\* base document with the operations applied one by one in timestamp order,
\* equal timestamps in list order; a second replay from the same base gives
\* the same document, and so does a replay of the same operations carried by
\* a log without metadata.
C11_ReplayDeterminism ==
    Replayed =>
        LET ops == OperationsOf(patch)
        IN /\ patched = ApplyEach(document, StableOrder(ops), 1)
           /\ patched = ApplyOperationalOperations(document, ops)
           /\ patched = PatchOperationalDoc(document, OperationsOnly(ops))

\* a replayed log with two operations of one timestamp whose order matters
C11_Witness ==
    /\ Replayed
    /\ \E i, j \in 1..Len(OperationsOf(patch)) :
          LET ops == OperationsOf(patch)
          IN /\ i < j
             /\ TimestampOf(ops[i]) = TimestampOf(ops[j])
             /\ ApplySingleOperation(ApplySingleOperation(document, ops[i]), ops[j])
                  # ApplySingleOperation(ApplySingleOperation(document, ops[j]), ops[i])

\* the log diff_operational returned has been replayed on the old document
DiffReplayed == pc = "patch_operational" /\ merged = None

\* C15: operational round-trip. Replaying on old the operations that
\* compute_operational_diff(old, new) returned gives a document deep-equal to
\* new, also when an array differs between old and new.
C15_OperationalRoundTrip ==
    DiffReplayed => ValuesEqualSimd(patched, new_doc)

\* the path is an object path that resolves in doc: every step is a string
\* key present in the object reached so far
RECURSIVE Resolves(_, _, _)
Resolves(doc, path, index) ==
    \/ index > Len(path)
    \/ /\ doc.t = "obj" /\ path[index].t = "str" /\ path[index].v \in DOMAIN doc.v
       /\ Resolves(doc.v[path[index].v], path, index + 1)

\* the value an object path leads to
RECURSIVE ValueAtPath(_, _, _)
ValueAtPath(doc, path, index) ==
    IF index > Len(path) THEN doc
    ELSE ValueAtPath(doc.v[path[index].v], path, index + 1)

IsSet(op) == HasKey(op, "type") /\ op.v["type"] = Str("set")

\* a log of exactly two set operations on one object path that resolves in the
\* document, with different timestamps, has been replayed
TwoSetsReplayed ==
    /\ Replayed
    /\ Len(OperationsOf(patch)) = 2
    /\ \A i \in 1..2 : IsSet(OperationsOf(patch)[i])
    /\ OperationsOf(patch)[1].v["path"] = OperationsOf(patch)[2].v["path"]
    /\ Resolves(document, OperationsOf(patch)[1].v["path"].v, 1)
    /\ TimestampOf(OperationsOf(patch)[1]) # TimestampOf(OperationsOf(patch)[2])

\* the operation of the larger timestamp among the two of the log
LaterOf(ops) == IF TimestampOf(ops[1]) > TimestampOf(ops[2]) THEN ops[1] ELSE ops[2]

\* C21: replay order. The order apply_operational_operations applies a log in
\* has non-decreasing timestamps and keeps operations of equal timestamp in
\* list order; after two set operations on one resolvable object path with
\* different timestamps, the value at that path is the value of the operation
\* with the larger timestamp, whatever their order in the list.
C21_ReplayOrder ==
    Replayed =>
        LET ops == OperationsOf(patch)
            sorted == SortByTimestamp(ops)
        IN /\ Len(sorted) = Len(ops)
           /\ \A k \in 1..(Len(sorted) - 1) : TimestampOf(sorted[k]) <= TimestampOf(sorted[k + 1])
           /\ \A i, j \in 1..Len(ops) :
                (i < j /\ TimestampOf(ops[i]) = TimestampOf(ops[j])) =>
                    \E k, l \in 1..Len(sorted) : k < l /\ sorted[k] = ops[i] /\ sorted[l] = ops[j]
           /\ TwoSetsReplayed =>
                /\ Resolves(patched, ops[1].v["path"].v, 1)
                /\ ValueAtPath(patched, ops[1].v["path"].v, 1) = LaterOf(ops).v["value"]

\* the two set operations were listed with the larger timestamp first and
\* carry different values
C21_Witness ==
    /\ TwoSetsReplayed
    /\ TimestampOf(OperationsOf(patch)[1]) > TimestampOf(OperationsOf(patch)[2])
    /\ OperationsOf(patch)[1].v["value"] # OperationsOf(patch)[2].v["value"]
    /\ OperationsOf(patch)[1].v["path"].v # <<>>

\* diff_operational has returned its log
DiffedOperational == pc = "diff_operational"

\* the options the call parsed: alloc holds what generate_actor_id and
\* current_timestamp_nanos returned to it
CallOptions == ParseOperationalOptions(opts, alloc[1], alloc[2])

\* C22: timestamps. For a compute_operational_diff call with base timestamp b
\* that emits n operations, the i-th operation (from 0) carries timestamp
\* b + i, so the timestamps of the log are strictly increasing, every operation
\* carries the call's actor_id, and metadata.timestamp_range is [b, b + n].
C22_Timestamps ==
    DiffedOperational =>
        LET ops == OperationsOf(diff)
            b == CallOptions.base_timestamp
            n == Len(ops)
        IN /\ \A i \in 1..n : ops[i].v["timestamp"] = Num(b + (i - 1))
           /\ \A i \in 1..(n - 1) : ops[i].v["timestamp"].v < ops[i + 1].v["timestamp"].v
           /\ \A i \in 1..n : ops[i].v["actor_id"] = Str(CallOptions.actor_id)
           /\ diff.v["metadata"].v["timestamp_range"] = Arr(<<Num(b), Num(b + n)>>)

\* diff_operational was called on two objects that differ in nothing but the
\* array under "a": the log is what diff_arrays_operational emitted at path
\* <<"a">>
ArraysDiffed ==
    /\ DiffedOperational
    /\ old_doc.t = "obj" /\ new_doc.t = "obj"
    /\ DOMAIN old_doc.v = {"a"} /\ DOMAIN new_doc.v = {"a"}
    /\ old_doc.v["a"].t = "arr" /\ new_doc.v["a"].t = "arr"
    /\ old_doc.v["a"] # new_doc.v["a"]

\* the operation has the type and addresses index i of the array at <<"a">>
OnIndex(op, type, i) ==
    /\ op.v["type"] = Str(type)
    /\ op.v["path"].t = "arr" /\ Len(op.v["path"].v) = 2
    /\ op.v["path"].v[1] = Str("a")
    /\ op.v["path"].v[2] \in {Str(ToString(i)), Num(i)}

\* C23: operational array diff order. For two unequal arrays at a path,
\* diff_arrays_operational emits exactly len(old) delete operations for the
\* indices len(old)-1 down to 0, then exactly len(new) insert operations for
\* the indices 0 up to len(new)-1 carrying new[i], and every delete operation
\* precedes every insert operation in timestamp order.
C23_ArrayDiffOrder ==
    ArraysDiffed =>
        LET ops == OperationsOf(diff)
            old_arr == old_doc.v["a"].v
            new_arr == new_doc.v["a"].v
        IN /\ Len(ops) = Len(old_arr) + Len(new_arr)
           /\ \A k \in 1..Len(old_arr) : OnIndex(ops[k], "delete", Len(old_arr) - k)
           /\ \A k \in 1..Len(new_arr) :
                /\ OnIndex(ops[Len(old_arr) + k], "insert", k - 1)
                /\ ops[Len(old_arr) + k].v["value"] = new_arr[k]
           /\ \A i \in 1..Len(old_arr), j \in (Len(old_arr) + 1)..Len(ops) :
                TimestampOf(ops[i]) < TimestampOf(ops[j])

\* merge_diffs_operational has returned the merged log
Merged == pc = "merge_diffs_operational"

\* how often x occurs in the sequence
Occurrences(seq, x) == Cardinality({i \in 1..Len(seq) : seq[i] = x})

\* the first place of x in the sequence
FirstIndex(seq, x) == CHOOSE i \in 1..Len(seq) : seq[i] = x /\ \A j \in 1..(i - 1) : seq[j] # x

\* the operations and the actor ids of the input logs, in the order given
InputOperations == OperationsOf(diffs[1]) \o OperationsOf(diffs[2])
InputActors == ActorsOf(diffs[1]) \o ActorsOf(diffs[2])

\* C24: merge structure. The operations of the merged log are a permutation of
\* the concatenation of the input logs' operations, sorted by non-decreasing
\* timestamp with operations of equal timestamp in concatenation order, and
\* metadata.actors lists every input actor id exactly once, in the order of
\* first occurrence.
C24_MergeStructure ==
    Merged =>
        LET ops == OperationsOf(merged)
            actors == merged.v["metadata"].v["actors"].v
        IN /\ Len(ops) = Len(InputOperations)
           /\ \A i \in 1..Len(ops) :
                Occurrences(ops, ops[i]) = Occurrences(InputOperations, ops[i])
           /\ \A k \in 1..(Len(ops) - 1) : TimestampOf(ops[k]) <= TimestampOf(ops[k + 1])
           /\ ops = StableOrder(InputOperations)
           /\ \A i \in 1..Len(InputActors) : Occurrences(actors, InputActors[i]) = 1
           /\ \A i \in 1..Len(actors) : Occurrences(InputActors, actors[i]) >= 1
           /\ \A i, j \in 1..Len(actors) :
                i < j => FirstIndex(InputActors, actors[i]) < FirstIndex(InputActors, actors[j])

\* two logs of one actor were merged, the operations of the second log are not
\* all after those of the first, and two operations share a timestamp
C24_Witness ==
    /\ Merged
    /\ ActorsOf(diffs[1]) = ActorsOf(diffs[2]) /\ ActorsOf(diffs[1]) # <<>>
    /\ OperationsOf(merged) # InputOperations
    /\ \E i, j \in 1..Len(InputOperations) :
          i # j /\ TimestampOf(InputOperations[i]) = TimestampOf(InputOperations[j])
                /\ InputOperations[i] # InputOperations[j]

\* the order the replay applies the operations of the patch in
ReplayOrder == SortByTimestamp(OperationsOf(patch))

\* the document before the k-th operation of the replay
DocBefore(k) == ApplyEach(document, SubSeq(ReplayOrder, 1, k - 1), 1)

\* walking the path from current runs into an array index not below the
\* array's length, into a scalar, or through an object key that is missing
RECURSIVE Misaddressed(_, _, _)
Misaddressed(current, path, index) ==
    /\ index <= Len(path)
    /\ LET key == path[index]
       IN IF current.t = "arr" THEN
              /\ key.t = "num"
              /\ \/ key.v >= Len(current.v)
                 \/ /\ index < Len(path)
                    /\ Misaddressed(current.v[key.v + 1], path, index + 1)
          ELSE IF current.t = "obj" THEN
              /\ key.t = "str"
              /\ index < Len(path)
              /\ \/ key.v \notin DOMAIN current.v
                 \/ Misaddressed(current.v[key.v], path, index + 1)
          ELSE TRUE

\* the k-th operation of the replay is a set or delete whose path is
\* misaddressed in the document it is applied to
IsNoOp(k) ==
    /\ ReplayOrder[k].v["type"] \in {Str("set"), Str("delete")}
    /\ ReplayOrder[k].v["path"].t = "arr"
    /\ Misaddressed(DocBefore(k), ReplayOrder[k].v["path"].v, 1)

\* C25: silent no-op. A set or delete operation whose path addresses an array
\* index not below the array's length, steps into a scalar or goes through a
\* missing object key leaves the whole document unchanged, and the operations
\* after it in the log are still applied.
C25_SilentNoOp ==
    Replayed =>
        \A k \in 1..Len(ReplayOrder) :
            IsNoOp(k) =>
                /\ ApplySingleOperation(DocBefore(k), ReplayOrder[k]) = DocBefore(k)
                /\ DocBefore(k + 1) = DocBefore(k)
                /\ patched = ApplyEach(DocBefore(k),
                                 SubSeq(ReplayOrder, k + 1, Len(ReplayOrder)), 1)

\* a replay where a misaddressed operation is followed by one that changes the
\* document
C25_Witness ==
    /\ Replayed
    /\ \E k \in 1..Len(ReplayOrder) :
          /\ IsNoOp(k)
          /\ k < Len(ReplayOrder)
          /\ patched # DocBefore(k)


---------------------------------------------------------------------------
(* Option parsing *)

\* the value is not one the parser of the key accepts
Malformed(key, value) ==
    IF key \in {"include_moves", "text_diff", "normalize", "context_aware"}
    THEN value \notin {"true", "false"}
    ELSE IF key = "array_diff" THEN value \notin {"lcs", "simple", "myers"}
    ELSE IF key = "text_diff_threshold" THEN ParseUsize(value) < 0
    ELSE IF key = "conflict_resolution" THEN value \notin {"last_write_wins", "merge"}
    ELSE FALSE

\* every entry of the list under the key, if any, has a malformed value
OnlyMalformed(list, key) ==
    \A i \in 1..Len(list) : list[i][1] = key => Malformed(key, list[i][2])

\* C12: option fallback. In every option parser an option whose key is either
\* absent from the list or given malformed values only keeps its documented
\* default; in particular a list of unknown keys leaves every option at its
\* default.
C12_OptionFallback ==
    /\ pc = "parse_diff_options" =>
        /\ OnlyMalformed(opts, "include_moves") => parsed.include_moves = TRUE
        /\ OnlyMalformed(opts, "text_diff") => parsed.text_diff = TRUE
        /\ OnlyMalformed(opts, "text_diff_threshold") => parsed.text_diff_threshold = 60
        /\ OnlyMalformed(opts, "array_diff") => parsed.array_diff_algorithm = "lcs"
    /\ pc = "parse_operational_options" =>
        /\ OnlyMalformed(opts, "conflict_resolution")
             => parsed.conflict_resolution = "last_write_wins"
    /\ pc = "parse_semantic_options" =>
        /\ OnlyMalformed(opts, "normalize") => parsed.normalize = TRUE
        /\ OnlyMalformed(opts, "context_aware") => parsed.context_aware = TRUE

---------------------------------------------------------------------------
(* Batch entry points *)

\* batch_expand(<<text>>): the result for a text sent alone
ExpandedAlone(text) == CollectInto(<<"">>, 1, ExpandItem(text))[1]

\* C13: batch order preservation. batch_expand on n texts returns exactly n
\* results, and result i is what text i gives when sent alone (its expansion,
\* or the error string when it is not JSON), whatever the other items are and
\* in whatever order the workers completed; while the call runs, a slot that
\* is filled already holds the result of its own item.
C13_BatchOrder ==
    /\ pc = "batch_expand_done" =>
        /\ Len(results) = Len(items)
        /\ \A i \in 1..Len(items) : results[i] = ExpandedAlone(items[i])
    /\ pc = "batch_expand" =>
        \A k \in 1..Len(finished) : results[finished[k]] = ExpandedAlone(items[finished[k]])

\* batch_expand has returned for two texts with different results, one of them
\* not JSON, and the worker of the second item completed first
C13_Witness ==
    /\ pc = "batch_expand_done"
    /\ Len(items) = 2
    /\ finished = <<2, 1>>
    /\ results[1] # results[2]
    /\ \E i \in 1..2 : items[i] \in InvalidTexts
    /\ \E i \in 1..2 : items[i] \notin InvalidTexts

---------------------------------------------------------------------------
(* Tolerance of the structural patch *)

\* a serde_json::Value of the model
RECURSIVE IsValue(_)
IsValue(val) ==
    /\ DOMAIN val = {"t", "v"}
    /\ \/ val.t = "null"
       \/ val.t = "bool" /\ val.v \in BOOLEAN
       \/ val.t = "num" /\ val.v \in Nat
       \/ val.t = "str" /\ val.v \in STRING
       \/ val.t = "arr" /\ \A i \in 1..Len(val.v) : IsValue(val.v[i])
       \/ val.t = "obj" /\ \A k \in DOMAIN val.v : IsValue(val.v[k])

\* the entry under key k of an array delta names an index past the end of the
\* array: the index of a deletion, of a change or of a nested delta, or the
\* source of a move.  With clamped_too, also the destination of a move and the
\* index of an insertion.
PastTheEnd(existing, delta_obj, k, clamped_too) ==
    LET idx == DeltaIndex(k)
        entry == delta_obj[k]
        is_insert == entry.t = "arr" /\ Len(entry.v) = 1
        is_move == ~IsDeletion(entry) /\ IsMove(entry) /\ entry.v[2].t = "num"
    IN /\ idx >= 0
       /\ IF is_insert THEN clamped_too /\ idx > Len(existing)
          ELSE /\ StartsWith(k, "_")
               /\ IF is_move
                  THEN \/ entry.v[2].v >= Len(existing)
                       \/ clamped_too /\ idx >= Len(existing)
                  ELSE idx >= Len(existing)

\* the entry under key k of an object delta does not fit the object it
\* patches: an array-index key, or a nested object delta on a scalar
MisfitInObject(obj, delta_obj, k) ==
    LET array_delta == k \in DOMAIN obj /\ obj[k].t = "arr" /\ delta_obj[k].t = "obj"
    IN \/ StartsWith(k, "_") /\ ~array_delta
       \/ k \in DOMAIN obj /\ IsScalar(obj[k]) /\ delta_obj[k].t = "obj"

\* the delta without the entries that do not fit doc, at every level
RECURSIVE WithoutMisfits(_, _, _)
WithoutMisfits(doc, delta, clamped_too) ==
    IF delta.t # "obj" THEN delta
    ELSE IF doc.t = "obj" THEN
        Obj([k \in {k \in DOMAIN delta.v : ~MisfitInObject(doc.v, delta.v, k)} |->
            IF k \in DOMAIN doc.v /\ delta.v[k].t = "obj"
            THEN WithoutMisfits(doc.v[k], delta.v[k], clamped_too)
            ELSE delta.v[k]])
    ELSE IF doc.t = "arr" THEN
        Obj([k \in {k \in DOMAIN delta.v : ~PastTheEnd(doc.v, delta.v, k, clamped_too)} |->
            IF StartsWith(k, "_") /\ delta.v[k].t = "obj"
               /\ DeltaIndex(k) >= 0 /\ DeltaIndex(k) < Len(doc.v)
            THEN WithoutMisfits(doc.v[DeltaIndex(k) + 1], delta.v[k], clamped_too)
            ELSE delta.v[k]])
    ELSE EmptyDelta

\* patch_structural has been called on a document and a delta
PatchedAny == pc = "patch_structural"

---------------------------------------------------------------------------
(* Caches *)

\* C28: bounded caches. After any sequence of calls the number of entries of
\* each persistent cache (HASH_CACHE, PATTERN_CACHE, CONTEXT_CACHE) is within
\* its fixed capacity, entries beyond it having been evicted.
C28_BoundedCaches ==
    /\ Cardinality(DOMAIN HASH_CACHE) <= HashCacheCapacity
    /\ Len(PATTERN_CACHE) <= PatternCacheCapacity
    /\ Len(CONTEXT_CACHE) <= ContextCacheCapacity

\* expand_with_cache has returned
ExpandedCached == pc = "expand_with_cache"

\* C29: pattern-cache transparency. Whatever PATTERN_CACHE holds from earlier
\* calls, expand_with_cache(input) returns what simple_expand(input) returns.
C29_PatternCacheTransparent ==
    ExpandedCached => expanded = SimpleExpand(json_val)

\* diff_arrays_with_moves_simd hashed the elements of two arrays
ElementsHashed ==
    /\ Diffed
    /\ old_doc.t = "arr" /\ new_doc.t = "arr"
    /\ ParseDiffOptions(opts).include_moves

\* C30: type-tagged hashing. compute_value_hash_fast feeds the hasher a type
\* tag before the payload, so two values of different JSON type (Null and
\* Bool(false), the empty array and the empty object, a Number and a String)
\* never feed it the same sequence of writes and never hash equal.
C30_TypeTaggedHashing ==
    ElementsHashed =>
        \A i \in 1..Len(old_doc.v), j \in 1..Len(new_doc.v) :
            old_doc.v[i].t # new_doc.v[j].t =>
                ComputeValueHashFast(old_doc.v[i]) # ComputeValueHashFast(new_doc.v[j])

====
